---- MODULE Spec2Model ----
(***************************************************************************)
(* GitHub Project Uploader: the upload workflow of MainWindow              *)
(* (src/gui_components.py).  The UI thread runs upload_to_github and the   *)
(* callbacks posted with root.after; one worker thread runs upload_thread, *)
(* which calls the GitHub REST API and the git executable.                 *)
(*                                                                         *)
(* Texts (field contents, messages, command output) are sequences of       *)
(* chunks; a chunk is a string, and " " is the blank character.            *)
(***************************************************************************)
EXTENDS Integers, Sequences, FiniteSets, TLC

\* Number of workflows the user starts in one behaviour.
MaxRuns == 2

----------------------------------------------------------------------------
\* Texts

RECURSIVE lstrip(_)
lstrip(s) ==
  IF s # <<>> /\ Head(s) = " " THEN lstrip(Tail(s)) ELSE s

RECURSIVE rstrip(_)
rstrip(s) ==
  IF s # <<>> /\ s[Len(s)] = " " THEN rstrip(SubSeq(s, 1, Len(s) - 1)) ELSE s

\* str.strip()
strip(s) ==
  rstrip(lstrip(s))

\* "sub in text", chunk-wise
Contains(text, sub) ==
  \E i \in 0..(Len(text) - Len(sub)) : SubSeq(text, i + 1, i + Len(sub)) = sub

\* str.lower() on the chunks that command output is made of
LowerChunk(c) ==
  CASE c = "Authentication failed" -> "authentication failed"
    [] c = "Invalid username or password" -> "invalid username or password"
    [] c = "Repository not found" -> "repository not found"
    [] c = "Permission denied" -> "permission denied"
    [] c = "Octo" -> "octo"
    [] OTHER -> c

lower(text) ==
  [i \in 1..Len(text) |-> LowerChunk(text[i])]

----------------------------------------------------------------------------
\* What the user can have typed into the form when a handler reads it.

UsernameVals == {<<>>, <<" ">>, <<"octo", " ">>}
TokenVals == {<<>>, <<" ">>, <<"ghp_tok">>, <<" ", "ghp_tok">>}
RepoNameVals == {<<>>, <<" ">>, <<" ", "demo">>}
\* "proj" is a directory, "file.txt" a regular file, "gone" does not exist.
ProjectPathVals == {<<>>, <<" ">>, <<"proj">>, <<"file.txt">>, <<"gone">>}
RepoModes == {"new", "existing"}
CommitModes == {"all", "changed", "selected"}

\* The files of the project directory, in the order os.walk lists them.
FileOrder == <<".gitignore", "a.txt", "config.ini">>
Files == {FileOrder[i] : i \in 1..Len(FileOrder)}
\* The listbox entries a selection is drawn from (.gitignore is never selected).
Selectable == {"a.txt", "config.ini"}

AppDir == "app"
ProjDir == "proj"

\* os.path.exists(project_path)
path_exists(p) ==
  p \in {<<"proj">>, <<"file.txt">>}

\* os.chdir(project_path) succeeds
is_dir(p) ==
  p = <<"proj">>

----------------------------------------------------------------------------
VARIABLES
  is_uploading,   \* self.is_uploading
  upload_button,  \* state of the upload button
  progress_bar,   \* "running" | "stopped"
  status_var,     \* text of the status line
  progress_var,   \* text of the progress line
  dialog,         \* the message box shown by the latest handler
  logs_text,      \* the thread that last wrote into the log widget
  lastCall,       \* outcome of the latest upload_to_github call
  queue,          \* callbacks posted with root.after(0, ...), in order
  pc,             \* where the worker thread is
  threads,        \* number of live worker threads
  closure,        \* the variables upload_thread closes over
  success,        \* upload_thread's local
  message,        \* upload_thread's local
  exc,            \* upload_thread's `e`: [bound, text]
  original_dir,   \* local of the two git functions
  temp_dir,       \* local of commit_to_existing_repository
  launcher_token, \* token of the launcher's session header
  cwd,            \* the process working directory
  hasGit,         \* the project directory holds .git
  origin,         \* the URL of its remote 'origin': "none", "plain" or "token"
  upstream,       \* its current branch has an upstream configured
  tree,           \* git's view of every file of the project directory
  ignoreCfg,      \* the .gitignore in place excludes config.ini
  tempDirs,       \* temporary directories that exist
  trace,          \* API requests and git commands issued since the button was last pressed
  failed,         \* the first step that failed since then
  steps,          \* the statements the worker has executed since then
  response,       \* the answer to the API request made since then
  form,           \* what the form holds, where a behaviour fixes it
  cred,           \* the configuration in memory and the config.ini files
  call,           \* a function applied on its own: argument and result
  widgets,        \* what the widgets the worker reads hold, where a behaviour tracks them
  auth,           \* the authentication test: button, thread, calls made
  runs            \* workflows started so far

uiVars == <<is_uploading, upload_button, progress_bar, status_var, progress_var, dialog>>
workerVars == <<pc, threads, closure, success, message, exc, original_dir, temp_dir>>
envVars == <<launcher_token, cwd, hasGit, origin, upstream, tree, ignoreCfg, tempDirs>>
histVars == <<trace, failed, steps, response, runs, form, cred, call, widgets, auth>>
vars == <<uiVars, logs_text, lastCall, queue, workerVars, envVars, histVars>>

NoDialog == [title |-> "none", text |-> <<>>]
NoFail == [step |-> "none", text |-> <<>>]
NoExc == [bound |-> FALSE, text |-> <<>>]
NoForm ==
  [username |-> <<>>, password |-> <<>>, project_path |-> <<>>, repo_name |-> <<>>,
   repo_mode |-> "new", commit_mode |-> "all", selected_files |-> {}]
\* config.ini as ConfigParser holds it: the entries of section GitHub.
EmptyConfig == [k \in {} |-> <<>>]
\* start: config.ini when the application was first started; config: the
\* ConfigParser in memory; files: config.ini in each directory; saved: the
\* pair last written by save_credentials; restarted: a second session runs.
NoCred ==
  [start |-> EmptyConfig, config |-> EmptyConfig,
   files |-> [d \in {"app", "proj"} |-> EmptyConfig],
   saved |-> <<>>, restarted |-> FALSE]
NoCall == [fn |-> "none", arg |-> [kind |-> "none"], result |-> <<>>]
\* password: password_var; commit_mode: commit_mode_var; selected_files: the
\* selection of file_listbox; log_created: the 'Repository created' line of
\* the log.  Not tracked: the worker may find anything in them.
NoWidgets ==
  [tracked |-> FALSE, password |-> <<>>, commit_mode |-> "all", selected_files |-> {},
   log_created |-> <<>>]
\* An answer to GET /user that has not arrived.
NoResponse ==
  [exc |-> FALSE, status |-> "none", has_login |-> FALSE, login |-> <<>>, text |-> <<>>]
\* button: state of test_auth_button; pc: where test_thread is; username:
\* the local it closes over; response: the answer it got; e: its `e`;
\* called: the handlers the latest test has called.
NoAuth ==
  [button |-> "normal", pc |-> "idle", username |-> <<>>, response |-> NoResponse,
   e |-> NoExc, called |-> <<>>]
NoClosure ==
  [username |-> <<>>, password |-> <<>>, project_path |-> <<>>,
   repo_name |-> <<>>, repo_mode |-> "new"]

FileStates == {"absent", "untracked", "clean", "modified", "staged"}

\* The project directory before the first run.  Without .git it is empty
\* or holds a.txt and config.ini, with or without a .gitignore of its own;
\* with .git, a.txt is clean, modified or untracked and config.ini untracked.
InitTrees(git) ==
  IF git
    THEN {t \in [Files -> FileStates] :
            /\ t["a.txt"] \in {"clean", "modified", "untracked"}
            /\ t["config.ini"] = "untracked"
            /\ t[".gitignore"] \in {"absent", "clean"}}
    ELSE {t \in [Files -> FileStates] :
            /\ t["a.txt"] \in {"absent", "untracked"}
            /\ t["config.ini"] = t["a.txt"]
            /\ t[".gitignore"] \in {"absent", "untracked"}}

\* The state after MainWindow.__init__, whatever the project directory holds.
Constructed ==
  /\ is_uploading = FALSE
  /\ upload_button = "normal"
  /\ progress_bar = "stopped"
  /\ status_var = <<"Enter your GitHub credentials and select a project folder">>
  /\ progress_var = <<"Ready">>
  /\ dialog = NoDialog
  /\ logs_text = "none"
  /\ lastCall = "none"
  /\ queue = <<>>
  /\ pc = "idle"
  /\ threads = 0
  /\ closure = NoClosure
  /\ success = "unset"
  /\ message = <<>>
  /\ exc = NoExc
  /\ original_dir = AppDir
  /\ temp_dir = FALSE
  /\ launcher_token = <<>>
  /\ cwd = AppDir
  /\ hasGit \in BOOLEAN
  /\ origin = (IF hasGit THEN "plain" ELSE "none")
  /\ upstream \in (IF hasGit THEN BOOLEAN ELSE {FALSE})
  /\ tree \in InitTrees(hasGit)
  /\ ignoreCfg \in (IF tree[".gitignore"] = "absent" THEN {FALSE} ELSE BOOLEAN)
  /\ tempDirs = 0
  /\ trace = <<>>
  /\ failed = NoFail
  /\ steps = <<>>
  /\ response = "none"

Init ==
  /\ Constructed
  /\ runs = 0
  /\ form = NoForm
  /\ cred = NoCred
  /\ call = NoCall
  /\ widgets = NoWidgets
  /\ auth = NoAuth

----------------------------------------------------------------------------
\* The UI thread

\* log_message, lines 270-283: the calling thread inserts the line into the
\* logs_text widget.
log_message(thread) ==
  logs_text' = thread

showerror(text) ==
  dialog' = [title |-> "Error", text |-> text]

\* The check of the selection, lines 413-419, left out.
ValidationError_mut(username, password, project_path, repo_name, repo_mode, commit_mode, selected_files) ==
  IF username = <<>> THEN <<"Please enter your GitHub username">>
  ELSE IF password = <<>> THEN <<"Please enter your GitHub Personal Access Token">>
  ELSE IF project_path = <<>> THEN <<"Please select a project folder">>
  ELSE IF repo_name = <<>> THEN <<"Please enter a repository name">>
  ELSE IF ~path_exists(project_path) THEN <<"Selected project folder does not exist">>
  ELSE <<>>

\* The first validation error of upload_to_github, <<>> if there is none.
ValidationError(username, password, project_path, repo_name, repo_mode, commit_mode, selected_files) ==
  IF username = <<>> THEN <<"Please enter your GitHub username">>
  ELSE IF password = <<>> THEN <<"Please enter your GitHub Personal Access Token">>
  ELSE IF project_path = <<>> THEN <<"Please select a project folder">>
  ELSE IF repo_name = <<>> THEN <<"Please enter a repository name">>
  ELSE IF ~path_exists(project_path) THEN <<"Selected project folder does not exist">>
  ELSE IF repo_mode = "existing" /\ commit_mode = "selected" /\ selected_files = {}
    THEN <<"Please select at least one file to commit">>
  ELSE <<>>

action_text(repo_mode) ==
  IF repo_mode = "existing" THEN "commit" ELSE "upload"

\* f"{action_text.capitalize()}ing"
Capitalizing(repo_mode) ==
  IF repo_mode = "existing" THEN "Commiting" ELSE "Uploading"

\* The guard of line 382 left out.
Busy_mut ==
  FALSE

\* Line 382: the call is ignored while a workflow is in flight.
Busy ==
  is_uploading

\* upload_to_github, lines 380-383: return at once.
upload_to_github_busy ==
  /\ Busy
  /\ lastCall' = "ignored"
  /\ UNCHANGED <<uiVars, logs_text, queue, workerVars, envVars, histVars>>

\* What the form can hold when the upload button is pressed.
FormInputs ==
  [username : UsernameVals, password : TokenVals, project_path : ProjectPathVals,
   repo_name : RepoNameVals, repo_mode : RepoModes, commit_mode : CommitModes,
   selected_files : SUBSET Selectable]

\* Lines 386-419 on one form: the error shown, <<>> if the form is accepted.
validate(fm) ==
  ValidationError(strip(fm.username), strip(fm.password), strip(fm.project_path),
                  strip(fm.repo_name), fm.repo_mode, fm.commit_mode,
                  fm.selected_files)

\* The variables upload_thread closes over, lines 386-390.
closure_of(fm) ==
  [username |-> strip(fm.username), password |-> strip(fm.password),
   project_path |-> strip(fm.project_path), repo_name |-> strip(fm.repo_name),
   repo_mode |-> fm.repo_mode]

\* The errors the forms lead to, and the closures of the accepted forms.
RejectedErrors ==
  {validate(fm) : fm \in FormInputs} \ {<<>>}

AcceptedClosures ==
  {closure_of(fm) : fm \in {f \in FormInputs : validate(f) = <<>>}}

\* upload_to_github, lines 392-419: the error is shown and the call returns.
Reject(err) ==
  /\ showerror(err)
  /\ lastCall' = "rejected"
  /\ trace' = <<>>
  /\ failed' = NoFail
  /\ steps' = <<>>
  /\ response' = "none"
  /\ UNCHANGED <<is_uploading, upload_button, progress_bar, status_var, progress_var,
                 queue, workerVars, envVars, runs, form, cred, call, widgets, auth, logs_text>>

\* upload_to_github, lines 421-468: the workflow is started with closure c.
Accept(c) ==
  /\ closure' = c
  /\ log_message("ui")
  /\ status_var' = <<Capitalizing(c.repo_mode), " to GitHub...">>
  /\ is_uploading' = TRUE
  /\ progress_bar' = "running"
  /\ upload_button' = "disabled"
  /\ dialog' = NoDialog
  /\ lastCall' = "started"
  /\ pc' = "start"
  /\ threads' = threads + 1
  /\ success' = "unset"
  /\ message' = <<>>
  /\ exc' = NoExc
  /\ temp_dir' = FALSE
  /\ trace' = <<>>
  /\ failed' = NoFail
  /\ steps' = <<>>
  /\ response' = "none"
  /\ runs' = runs + 1
  /\ UNCHANGED <<progress_var, queue, original_dir, envVars, form, cred, call, widgets, auth>>

\* upload_to_github on a form that fails validation
upload_to_github_invalid ==
  /\ ~Busy
  /\ \E err \in RejectedErrors : Reject(err)

\* upload_to_github on a form that passes validation
upload_to_github_start ==
  /\ ~Busy
  /\ runs < MaxRuns
  /\ \E c \in AcceptedClosures : Accept(c)

\* upload_to_github on the form the behaviour fixes
upload_to_github_form ==
  /\ ~Busy
  /\ IF validate(form) # <<>>
       THEN Reject(validate(form))
       ELSE runs < MaxRuns /\ Accept(closure_of(form))

\* upload_failed, lines 889-897
upload_failed(error_message) ==
  /\ is_uploading' = FALSE
  /\ progress_bar' = "stopped"
  /\ status_var' = <<"Upload failed: ">> \o error_message
  /\ upload_button' = "normal"
  /\ dialog' = [title |-> "Upload Failed",
                text |-> <<"Failed to upload project:\n\n">> \o error_message]
  /\ log_message("ui")
  /\ UNCHANGED progress_var

\* upload_succeeded, lines 762-770
upload_succeeded(msg) ==
  /\ is_uploading' = FALSE
  /\ progress_bar' = "stopped"
  /\ status_var' = <<"Upload completed successfully">>
  /\ upload_button' = "normal"
  /\ dialog' = [title |-> "Success",
                text |-> <<"Project uploaded successfully!\n\n">> \o msg]
  /\ log_message("ui")
  /\ UNCHANGED progress_var

Callback(fn, arg) ==
  [fn |-> fn, arg |-> arg]

\* root.after(0, ...) from the worker: the callbacks are appended in order.
Posted(cbs) ==
  queue' = queue \o cbs

\* The last lambda that closes over upload_thread's variables has run: the
\* frame of the finished thread is garbage.
FrameReleased ==
  IF Len(queue) = 1 /\ pc = "idle"
    THEN closure' = NoClosure /\ success' = "unset" /\ message' = <<>>
    ELSE UNCHANGED <<closure, success, message>>

\* The event loop runs the oldest posted callback.  A lambda reads the
\* variables it closes over (message, e) when it runs, not when it was made.
cb_update_progress ==
  /\ queue # <<>> /\ Head(queue).fn = "update_progress"
  /\ progress_var' = Head(queue).arg
  /\ queue' = Tail(queue)
  /\ UNCHANGED <<is_uploading, upload_button, progress_bar, status_var, dialog,
                 logs_text, lastCall, workerVars, envVars, histVars>>

\* line 442: lambda: self.log_message(f"Repository created: {message}")
cb_log_created ==
  /\ queue # <<>> /\ Head(queue).fn = "log_created"
  /\ log_message("ui")
  /\ widgets' = IF widgets.tracked
                  THEN [widgets EXCEPT !.log_created = <<"Repository created: ">> \o message]
                  ELSE widgets
  /\ queue' = Tail(queue)
  /\ UNCHANGED <<uiVars, lastCall, workerVars, envVars, trace, failed, steps, response,
                 runs, form, cred, call, auth>>

\* lines 439, 453, 463: lambda: self.upload_failed(prefix + message)
cb_upload_failed ==
  /\ queue # <<>> /\ Head(queue).fn = "upload_failed"
  /\ upload_failed(Head(queue).arg \o message)
  /\ queue' = Tail(queue)
  /\ FrameReleased
  /\ UNCHANGED <<lastCall, pc, threads, exc, original_dir, temp_dir, envVars, histVars>>

\* line 461: lambda: self.upload_succeeded(message)
cb_upload_succeeded ==
  /\ queue # <<>> /\ Head(queue).fn = "upload_succeeded"
  /\ upload_succeeded(message)
  /\ queue' = Tail(queue)
  /\ FrameReleased
  /\ UNCHANGED <<lastCall, pc, threads, exc, original_dir, temp_dir, envVars, histVars>>

\* line 466: lambda: self.upload_failed(f"{action_text.capitalize()} error: {str(e)}")
\* `e` is unbound once the worker has left the except clause: the lambda then
\* raises NameError in the event loop and upload_failed is not called.
cb_upload_failed_exc ==
  /\ queue # <<>> /\ Head(queue).fn = "upload_failed_exc"
  /\ IF exc.bound
       THEN upload_failed(Head(queue).arg \o exc.text)
       ELSE UNCHANGED <<uiVars, logs_text>>
  /\ queue' = Tail(queue)
  /\ UNCHANGED <<lastCall, workerVars, envVars, histVars>>

----------------------------------------------------------------------------
\* The hosting API and the git executable, as the workflow sees them.

\* A response to POST /user/repos; exc: the request raised (timeout, network);
\* already: the body lists the error code already_exists; text: the body.
CreateResponses ==
  {[exc |-> FALSE, status |-> 201, already |-> FALSE, text |-> "body"],
   [exc |-> FALSE, status |-> 422, already |-> TRUE, text |-> "body"],
   [exc |-> FALSE, status |-> 422, already |-> FALSE, text |-> "body"],
   [exc |-> FALSE, status |-> 401, already |-> FALSE, text |-> "body"],
   [exc |-> FALSE, status |-> 403, already |-> FALSE, text |-> "body"],
   [exc |-> FALSE, status |-> 500, already |-> FALSE, text |-> "body"],
   [exc |-> TRUE, status |-> 0, already |-> FALSE, text |-> ""]}

\* A response to GET /repos/{owner}/{repo}.
ExistsResponses ==
  {[exc |-> FALSE, status |-> 200],
   [exc |-> FALSE, status |-> 404],
   [exc |-> FALSE, status |-> 401],
   [exc |-> FALSE, status |-> 500],
   [exc |-> TRUE, status |-> 0]}

\* f"{response.status_code}"
StatusText(n) ==
  ToString(n)

\* A repository that already exists taken for one that was created.
create_github_repository_mut(repo_name, r) ==
  IF r.exc THEN <<FALSE, <<"Error creating repository: ", "ConnectionError">>>>
  ELSE IF r.status = 201 \/ (r.status = 422 /\ r.already)
    THEN <<TRUE, <<"Repository '">> \o repo_name \o <<"' created successfully">>>>
  ELSE <<FALSE, <<"GitHub API error: ", StatusText(r.status), " - ", r.text>>>>

\* create_github_repository: <<success, message>>
create_github_repository(repo_name, r) ==
  IF r.exc THEN <<FALSE, <<"Error creating repository: ", "ConnectionError">>>>
  ELSE IF r.status = 201
    THEN <<TRUE, <<"Repository '">> \o repo_name \o <<"' created successfully">>>>
  ELSE IF r.status = 422
    THEN IF r.already
           THEN <<FALSE, <<"Repository '">> \o repo_name \o <<"' already exists">>>>
           ELSE <<FALSE, <<"Repository '">> \o repo_name
                         \o <<"' validation failed: ", "Unknown error">>>>
  ELSE IF r.status = 401
    THEN <<FALSE, <<"Authentication failed - check your Personal Access Token permissions (needs 'repo' scope)">>>>
  ELSE IF r.status = 403
    THEN <<FALSE, <<"Permission denied - check your Personal Access Token has 'repo' scope enabled">>>>
  ELSE <<FALSE, <<"GitHub API error: ", StatusText(r.status), " - ", r.text>>>>

\* Every 2xx status taken for the repository being there.
check_repository_exists_mut2xx(username, repo_name, r) ==
  IF r.exc THEN <<FALSE, <<"Error checking repository: ", "ConnectionError">>>>
  ELSE IF r.status \in 200..299 THEN <<TRUE, <<"Repository exists and accessible">>>>
  ELSE <<FALSE, <<"GitHub API error: ", StatusText(r.status)>>>>

\* Any response taken for the repository being there.
check_repository_exists_mut(username, repo_name, r) ==
  IF r.exc THEN <<FALSE, <<"Error checking repository: ", "ConnectionError">>>>
  ELSE <<TRUE, <<"Repository exists and accessible">>>>

\* check_repository_exists: <<success, message>>
check_repository_exists(username, repo_name, r) ==
  IF r.exc THEN <<FALSE, <<"Error checking repository: ", "ConnectionError">>>>
  ELSE IF r.status = 200 THEN <<TRUE, <<"Repository exists and accessible">>>>
  ELSE IF r.status = 404
    THEN <<FALSE, <<"Repository '">> \o repo_name \o <<"' not found in ">>
                  \o username \o <<"'s account">>>>
  ELSE IF r.status = 401
    THEN <<FALSE, <<"Authentication failed - check your Personal Access Token">>>>
  ELSE <<FALSE, <<"GitHub API error: ", StatusText(r.status)>>>>

\* The candidates of find_git_executable, in order.
common_git_paths ==
  <<"git", "C:\\Program Files\\Git\\bin\\git.exe", "C:\\Program Files\\Git\\cmd\\git.exe",
    "C:\\Program Files (x86)\\Git\\bin\\git.exe", "C:\\Program Files (x86)\\Git\\cmd\\git.exe",
    "C:\\Git\\bin\\git.exe", "C:\\Git\\cmd\\git.exe">>

\* What `<candidate> --version` does: "ok" (exit 0), "nonzero", "missing"
\* (FileNotFoundError) or "timeout" (TimeoutExpired).
ProbeOutcomes == {"ok", "nonzero", "missing", "timeout"}

\* The loop of lines 515-523 without the test of the exit status.
RECURSIVE find_git_from_mut(_, _)
find_git_from_mut(probe, i) ==
  IF i > Len(common_git_paths) THEN 0
  ELSE IF probe[i] \in {"ok", "nonzero"} THEN i
  ELSE find_git_from_mut(probe, i + 1)

\* find_git_executable: the index of the first candidate from i on whose
\* version query exits 0, and 0 for None.
RECURSIVE find_git_from(_, _)
find_git_from(probe, i) ==
  IF i > Len(common_git_paths) THEN 0
  ELSE IF probe[i] = "ok" THEN i
  ELSE find_git_from(probe, i + 1)

find_git_executable(probe) ==
  find_git_from(probe, 1)

\* The installations the workflow is run on: no git at all, git on PATH, and
\* a PATH entry that fails its version query with git installed under cmd.
WorkflowProbes ==
  {[i \in 1..Len(common_git_paths) |-> "missing"],
   [i \in 1..Len(common_git_paths) |-> IF i = 1 THEN "ok" ELSE "missing"],
   [i \in 1..Len(common_git_paths) |->
      IF i = 1 THEN "nonzero" ELSE IF i = 3 THEN "ok" ELSE "missing"]}

\* Results of a git command that exits non-zero: [rc, out, err].
FailResults(cmd) ==
  {[rc |-> 1, out |-> <<>>, err |-> <<"fatal: ", cmd, " failed">>]}

AuthFailedText == <<"fatal: ", "Authentication failed", " for 'https://github.com/'">>
OtherErrorText == <<"fatal: ", "unable to access 'https://github.com/'">>

\* Results of git push: success, or exit 1 with the texts on stderr or stdout.
PushResults ==
  {[rc |-> 0, out |-> <<>>, err |-> <<"To https://github.com/">>],
   [rc |-> 1, out |-> <<>>, err |-> AuthFailedText],
   [rc |-> 1, out |-> AuthFailedText, err |-> <<>>],
   [rc |-> 1, out |-> AuthFailedText, err |-> OtherErrorText],
   [rc |-> 1, out |-> <<>>, err |-> <<"remote: ", "Invalid username or password", ".">>],
   [rc |-> 1, out |-> <<>>, err |-> <<"remote: ", "Repository not found", ".">>],
   [rc |-> 1, out |-> <<>>, err |-> OtherErrorText]}

\* str(e) of a CalledProcessError
CalledProcessErrorText(cmd) ==
  <<"Command '", cmd, "' returned non-zero exit status 1.">>

\* .gitignore rules apply to untracked files only.
Ignored(t, ign, f) ==
  /\ f = "config.ini"
  /\ t[f] = "untracked"
  /\ t[".gitignore"] # "absent"
  /\ ign

\* git add .
add_all(t, ign) ==
  [f \in Files |->
     IF t[f] = "modified" \/ (t[f] = "untracked" /\ ~Ignored(t, ign, f))
       THEN "staged" ELSE t[f]]

\* git add -u taken for git add .
add_update_mut(t) ==
  add_all(t, FALSE)

\* git add -u
add_update(t) ==
  [f \in Files |-> IF t[f] = "modified" THEN "staged" ELSE t[f]]

\* git add <file> exits non-zero for a path that matches no file or that is ignored.
add_file_fails(t, ign, f) ==
  t[f] = "absent" \/ Ignored(t, ign, f)

add_file(t, f) ==
  [t EXCEPT ![f] = IF t[f] \in {"modified", "untracked"} THEN "staged" ELSE t[f]]

\* The lines of git status --porcelain: staged, modified and untracked files.
porcelain(t, ign) ==
  {f \in Files : t[f] \in {"staged", "modified"}
                 \/ (t[f] = "untracked" /\ ~Ignored(t, ign, f))}

Staged(t) ==
  {f \in Files : t[f] = "staged"}

\* A commit that leaves the staged files staged.
commit_tree_mut(t) ==
  t

\* git commit records the staged files.
commit_tree(t) ==
  [f \in Files |-> IF t[f] = "staged" THEN "clean" ELSE t[f]]

\* After the cloned .git is copied in, each file of the directory is
\* unchanged from, different from, or unknown to the cloned history.
clone_trees(t) ==
  {t2 \in [Files -> FileStates] :
     \A f \in Files :
       IF t[f] = "absent" THEN t2[f] = "absent"
       ELSE t2[f] \in {"clean", "modified", "untracked"}}

----------------------------------------------------------------------------
\* The worker thread: upload_thread and the functions it calls, one action
\* per API request, git command or file-system operation.

\* Every step of the worker is recorded; none writes the widgets other than
\* the log.
WorkerFrame ==
  /\ steps' = Append(steps, pc)
  /\ UNCHANGED <<uiVars, lastCall, closure, runs, form, cred, call, widgets, auth>>

\* A step that makes no API request.
WorkerStep ==
  /\ WorkerFrame
  /\ UNCHANGED response

\* How the hosting service answered.
ResponseName(r) ==
  IF r.exc THEN "network error"
  ELSE IF r.status = 422 /\ r.already THEN "422 already exists"
  ELSE StatusText(r.status)

Issue(cmd) ==
  trace' = Append(trace, cmd)

Fails(step, text) ==
  failed' = IF failed.step = "none" THEN [step |-> step, text |-> text] ELSE failed

\* The next statement of the function is reached.
Goto(next) ==
  /\ pc' = next
  /\ UNCHANGED <<success, message, exc, cwd, threads, queue>>

\* subprocess.run without timeout= on a command that never returns: the
\* worker stays blocked in the call.
Hangs ==
  /\ pc' = "blocked"
  /\ UNCHANGED <<success, message, exc, cwd, threads, queue, failed, logs_text>>

\* The thread function returns.
ThreadExit ==
  /\ pc' = "idle"
  /\ threads' = threads - 1

\* upload_thread, lines 446/458 and 460-463: the git function has returned
\* ok, msg; success and message are assigned, the final callback is posted
\* and the thread ends.
Finish(ok, msg) ==
  /\ success' = ok
  /\ message' = msg
  /\ IF ok
       THEN Posted(<<Callback("upload_succeeded", <<>>)>>)
       ELSE Posted(<<Callback("upload_failed", <<>>)>>)
  /\ ThreadExit
  /\ UNCHANGED exc

\* A return that skips the finally clause.
Return_mut(ok, msg) ==
  /\ UNCHANGED cwd
  /\ Finish(ok, msg)

\* `return ok, msg` from inside the inner try: the finally clause restores
\* the working directory first.
Return(ok, msg) ==
  /\ cwd' = original_dir
  /\ Finish(ok, msg)

\* upload_thread, lines 465-466: an exception reached the except clause,
\* which binds it to `e` and posts the callback; the worker is still inside
\* the clause.
Except(text) ==
  /\ exc' = [bound |-> TRUE, text |-> text]
  /\ Posted(<<Callback("upload_failed_exc",
                       <<IF closure.repo_mode = "existing" THEN "Commit" ELSE "Upload",
                         " error: ">>)>>)
  /\ pc' = "del_e"
  /\ UNCHANGED <<success, message, threads>>

\* An exception leaves the git function, after its finally clause.
Escape(text) ==
  /\ cwd' = original_dir
  /\ Except(text)

\* error_output of init_and_push_repository's handler, lines 618-623
handler_output(res) ==
  IF res.err # <<>> THEN res.err ELSE IF res.out # <<>> THEN res.out ELSE <<>>

\* The handler of lines 616-632 without the output of the command.
init_failure_message_mut(cmd_name, res) ==
  <<"Git operation failed">>

\* init_and_push_repository, except CalledProcessError, lines 616-632
init_failure_message(cmd_name, res) ==
  IF cmd_name = "commit"
    THEN <<"Git commit failed. Make sure the selected folder contains files to upload.">>
  ELSE IF cmd_name = "push"
    THEN <<"Git push failed. This might be due to authentication or network issues. Check your Personal Access Token permissions.">>
  ELSE <<"Git ", cmd_name, " operation failed: ">>
       \o (IF handler_output(res) # <<>> THEN handler_output(res)
           ELSE CalledProcessErrorText(cmd_name))

\* commit_to_existing_repository, except CalledProcessError, lines 752-755
commit_failure_message(cmd_name, res) ==
  <<"Git operation failed: ">>
  \o (IF res.err # <<>> THEN res.err ELSE CalledProcessErrorText(cmd_name))

\* A check=True command exited non-zero.  The handler calls log_message from
\* the worker thread before it returns; if that call raises, the exception
\* leaves the function.
CalledProcessError(msg) ==
  /\ log_message("worker")
  /\ \/ Return(FALSE, msg)
     \/ Escape(<<"RuntimeError: main thread is not in main loop">>)

\* The push classification of init_and_push_repository, lines 595-608
classify_push(res) ==
  LET error_output == IF res.err # <<>> THEN res.err ELSE res.out
  IN IF Contains(lower(error_output), <<"authentication failed">>)
        \/ Contains(lower(error_output), <<"invalid username or password">>)
       THEN <<"Git push authentication failed. Please check your Personal Access Token permissions.">>
     ELSE IF Contains(lower(error_output), <<"repository not found">>)
       THEN <<"Repository not found. Please check if the repository was created successfully.">>
     ELSE IF Contains(lower(error_output), <<"permission denied">>)
       THEN <<"Permission denied. Please check your Personal Access Token has write permissions.">>
     ELSE IF Contains(error_output, <<"remote: Support for password authentication was removed">>)
       THEN <<"Password authentication not supported. Please use a Personal Access Token instead of password.">>
     ELSE <<"Git push failed: ">> \o error_output

\* The push result of commit_to_existing_repository, lines 741-744
existing_push_message(res) ==
  <<"Git push failed: ">> \o (IF res.err # <<>> THEN res.err ELSE res.out)

\* lines 611 and 747: https://github.com/{username}/{repo_name}
RepoUrl(username, repo_name) ==
  <<"https://github.com/">> \o username \o <<"/">> \o repo_name

\* upload_thread, lines 429-435 and 447-449
upload_thread_start ==
  /\ pc = "start"
  /\ \/ /\ launcher_token' = closure.password
        /\ IF closure.repo_mode = "new"
             THEN /\ Posted(<<Callback("update_progress", <<"Creating repository on GitHub...">>)>>)
                  /\ pc' = "create"
             ELSE /\ Posted(<<Callback("update_progress", <<"Checking repository...">>)>>)
                  /\ pc' = "exists"
        /\ UNCHANGED <<success, message, exc, threads>>
     \/ \* an unexpected exception in one of these statements
        /\ Except(<<"RuntimeError">>)
        /\ UNCHANGED launcher_token
  /\ WorkerStep
  /\ UNCHANGED logs_text
  /\ UNCHANGED <<original_dir, temp_dir, cwd, hasGit, origin, upstream, tree, ignoreCfg, tempDirs, trace, failed>>

\* upload_thread, lines 436-445
upload_thread_create ==
  /\ pc = "create"
  /\ Issue("create")
  /\ \E r \in CreateResponses :
       LET res == create_github_repository(closure.repo_name, r) IN
       /\ response' = ResponseName(r)
       /\ success' = res[1]
       /\ message' = res[2]
       /\ IF res[1]
            THEN /\ Posted(<<Callback("log_created", <<>>),
                             Callback("update_progress", <<"Initializing git repository...">>)>>)
                 /\ pc' = "n_find"
                 /\ UNCHANGED <<threads, failed>>
            ELSE /\ Posted(<<Callback("upload_failed", <<"Failed to create repository: ">>)>>)
                 /\ Fails("create", res[2])
                 /\ ThreadExit
  /\ WorkerFrame
  /\ UNCHANGED <<exc, original_dir, temp_dir, envVars, logs_text>>

\* upload_thread, lines 450-457
upload_thread_check ==
  /\ pc = "exists"
  /\ Issue("exists")
  /\ \E r \in ExistsResponses :
       LET res == check_repository_exists(closure.username, closure.repo_name, r) IN
       /\ response' = ResponseName(r)
       /\ success' = res[1]
       /\ message' = res[2]
       /\ IF res[1]
            THEN /\ Posted(<<Callback("update_progress", <<"Committing changes...">>)>>)
                 /\ pc' = "e_find"
                 /\ UNCHANGED <<threads, failed>>
            ELSE /\ Posted(<<Callback("upload_failed", <<"Repository check failed: ">>)>>)
                 /\ Fails("exists", res[2])
                 /\ ThreadExit
  /\ WorkerFrame
  /\ UNCHANGED <<exc, original_dir, temp_dir, envVars, logs_text>>

GitNotFound ==
  <<"Git is not found. Please install Git from git-scm.com or check if it's in your PATH.">>

\* Lines 530-537 and 660-671: find git, remember the working directory and
\* change into the project directory.
find_and_chdir(at, next, errPrefix) ==
  /\ pc = at
  /\ Issue("version")
  /\ \E probe \in WorkflowProbes :
       IF find_git_executable(probe) = 0
         THEN /\ Finish(FALSE, GitNotFound)
              /\ Fails("find_git", GitNotFound)
              /\ UNCHANGED <<cwd, original_dir, logs_text>>
         ELSE /\ log_message("worker")
              /\ original_dir' = cwd
              /\ IF is_dir(closure.project_path)
                   THEN /\ cwd' = ProjDir
                        /\ pc' = next
                        /\ UNCHANGED <<success, message, exc, threads, queue, failed>>
                   ELSE /\ Finish(FALSE, <<errPrefix, "NotADirectoryError">>)
                        /\ Fails("chdir", <<"NotADirectoryError">>)
                        /\ UNCHANGED cwd
  /\ WorkerStep
  /\ UNCHANGED <<temp_dir, launcher_token, hasGit, origin, upstream, tree, ignoreCfg, tempDirs>>

init_find_git ==
  find_and_chdir("n_find", "n_init", "Error during git operations: ")

\* A check=True git command of init_and_push_repository whose success
\* leaves the project directory as newGit, newTree.
init_checked(at, cmd, next, newGit, newTree) ==
  /\ pc = at
  /\ Issue(cmd)
  /\ \/ /\ Goto(next)
        /\ hasGit' = newGit
        /\ tree' = newTree
        /\ IF at = "n_cfg_name" THEN UNCHANGED logs_text ELSE log_message("worker")
        /\ UNCHANGED failed
     \/ \E res \in FailResults(cmd) :
          /\ CalledProcessError(init_failure_message(cmd, res))
          /\ Fails(cmd, IF res.err # <<>> THEN res.err ELSE <<cmd>>)
          /\ UNCHANGED <<hasGit, tree>>
     \/ /\ Hangs
        /\ UNCHANGED <<hasGit, tree>>
  /\ WorkerStep
  /\ UNCHANGED <<original_dir, temp_dir, launcher_token, origin, upstream, ignoreCfg, tempDirs>>

\* line 541
init_git_init ==
  init_checked("n_init", "init", "n_cfg_name", TRUE, tree)

\* line 545
init_config_name ==
  init_checked("n_cfg_name", "config", "n_cfg_email", hasGit, tree)

\* line 546
init_config_email ==
  init_checked("n_cfg_email", "config", "n_ignore", hasGit, tree)

\* lines 558-562: write .gitignore unless there is one.
init_gitignore ==
  /\ pc = "n_ignore"
  /\ \/ /\ IF tree[".gitignore"] = "absent"
             THEN /\ tree' = [tree EXCEPT ![".gitignore"] = "untracked"]
                  /\ ignoreCfg' = TRUE
                  /\ log_message("worker")
             ELSE UNCHANGED <<tree, ignoreCfg, logs_text>>
        /\ Goto("n_add")
        /\ UNCHANGED failed
     \/ /\ tree[".gitignore"] = "absent"
        /\ Return(FALSE, <<"Error during git operations: ", "PermissionError">>)
        /\ Fails("gitignore", <<"PermissionError">>)
        /\ UNCHANGED <<tree, ignoreCfg, logs_text>>
  /\ WorkerStep
  /\ UNCHANGED <<original_dir, temp_dir, launcher_token, hasGit, origin, upstream, tempDirs, trace>>

\* line 565
init_add ==
  init_checked("n_add", "add", "n_status", hasGit, add_all(tree, ignoreCfg))

\* git status --porcelain, run without check=True: only its stdout is read.
\* It prints the porcelain lines and exits 0, or fails printing nothing.
StatusResults ==
  {[rc |-> 0, out |-> porcelain(tree, ignoreCfg), err |-> <<>>],
   [rc |-> 128, out |-> {}, err |-> <<"fatal: ", "status", " failed">>]}

\* lines 569-571 and 719-721
status_check(at, next, nothing) ==
  /\ pc = at
  /\ Issue("status")
  /\ \/ \E res \in StatusResults :
          /\ IF res.out = {} THEN Return(FALSE, nothing) ELSE Goto(next)
          /\ UNCHANGED logs_text
          /\ IF res.rc # 0 THEN Fails("status", res.err)
             ELSE IF res.out = {} THEN Fails("nothing", nothing)
             ELSE UNCHANGED failed
     \/ Hangs
  /\ WorkerStep
  /\ UNCHANGED <<original_dir, temp_dir, launcher_token, hasGit, origin, upstream, tree,
                 ignoreCfg, tempDirs>>

NoFilesFound == <<"No files found to upload in the selected directory">>
NoChangesFound == <<"No changes found to commit">>

init_status ==
  status_check("n_status", "n_commit", NoFilesFound)

\* git commit exits non-zero when nothing is staged, and may fail otherwise.
CommitResults ==
  (IF Staged(tree) # {} THEN {[rc |-> 0, out |-> <<"1 file changed">>, err |-> <<>>]} ELSE {})
  \cup {[rc |-> 1, out |-> <<"nothing added to commit">>, err |-> <<>>]}
  \cup (IF Staged(tree) # {}
          THEN {[rc |-> 1, out |-> <<>>, err |-> <<"fatal: ", "commit", " failed">>]}
          ELSE {})

\* line 574
init_commit ==
  /\ pc = "n_commit"
  /\ Issue("commit")
  /\ \/ \E res \in CommitResults :
          IF res.rc = 0
            THEN /\ Goto("n_branch")
                 /\ tree' = commit_tree(tree)
                 /\ log_message("worker")
                 /\ UNCHANGED failed
            ELSE /\ CalledProcessError(init_failure_message("commit", res))
                 /\ Fails("commit", IF res.err # <<>> THEN res.err ELSE res.out)
                 /\ UNCHANGED tree
     \/ /\ Hangs
        /\ UNCHANGED tree
  /\ WorkerStep
  /\ UNCHANGED <<original_dir, temp_dir, launcher_token, hasGit, origin, upstream, ignoreCfg, tempDirs>>

\* line 578
init_branch ==
  init_checked("n_branch", "branch", "n_remote", hasGit, tree)

\* What the token field holds when the worker reads it, lines 582 and 674:
\* the user does not empty the field while the workflow runs.
LiveTokenVals ==
  TokenVals \ {<<>>}

\* self.password_var.get(), lines 582 and 674
LiveTokens ==
  IF widgets.tracked THEN {widgets.password} ELSE LiveTokenVals

\* self.commit_mode_var.get() and self.get_selected_files(), lines 699 and 713
LiveModes ==
  IF widgets.tracked THEN {widgets.commit_mode} ELSE CommitModes

LiveSelections ==
  IF widgets.tracked THEN {widgets.selected_files} ELSE SUBSET Selectable

\* The URL of lines 583 and 675 embeds the token unless the field is empty.
remote_url(token) ==
  IF token = <<>> THEN "plain" ELSE "token"

\* lines 582-585: the token is read from the form now and the remote
\* 'origin' is given the URL that embeds it.  git refuses to add a remote
\* that is there already.
init_remote_add ==
  /\ pc = "n_remote"
  /\ Issue("remote")
  /\ \/ /\ origin = "none"
        /\ \E token \in LiveTokens : origin' = remote_url(token)
        /\ log_message("worker")
        /\ Goto("n_push")
        /\ UNCHANGED failed
     \/ \E res \in FailResults("remote") :
          /\ CalledProcessError(init_failure_message("remote", res))
          /\ Fails("remote", res.err)
          /\ UNCHANGED origin
     \/ /\ Hangs
        /\ UNCHANGED origin
  /\ WorkerStep
  /\ UNCHANGED <<original_dir, temp_dir, launcher_token, hasGit, upstream, tree,
                 ignoreCfg, tempDirs>>

\* lines 592-611: git push -u origin main, which on success records
\* origin/main as the upstream of main; the command has a timeout of 60 s.
init_push ==
  /\ pc = "n_push"
  /\ Issue("push")
  /\ \/ \E res \in PushResults :
          /\ log_message("worker")
          /\ IF res.rc = 0
               THEN /\ Return(TRUE, <<"Project successfully uploaded to ">>
                                    \o RepoUrl(closure.username, closure.repo_name))
                    /\ upstream' = TRUE
                    /\ UNCHANGED failed
               ELSE /\ Return(FALSE, classify_push(res))
                    /\ Fails("push", res.out \o res.err)
                    /\ UNCHANGED upstream
     \/ /\ Return(FALSE, <<"Git operation ", "timed out", ". This might be due to network issues.">>)
        /\ Fails("push", <<"timed out">>)
        /\ UNCHANGED <<logs_text, upstream>>
  /\ WorkerStep
  /\ UNCHANGED <<original_dir, temp_dir, launcher_token, hasGit, origin, tree,
                 ignoreCfg, tempDirs>>

\* Leaving the except clause unbinds `e`; the thread function returns.  (The
\* step is not recorded once a later press of the button has cleared the
\* record of the run.)
upload_thread_del_e ==
  /\ pc = "del_e"
  /\ exc' = NoExc
  /\ ThreadExit
  /\ steps' = IF steps = <<>> THEN steps ELSE Append(steps, pc)
  /\ UNCHANGED <<uiVars, logs_text, lastCall, closure, runs, form, cred, call, widgets, auth, response>>
  /\ UNCHANGED <<queue, success, message, original_dir, temp_dir, envVars, trace, failed>>

\* The callback of line 466 ran while `e` was bound and the user started the
\* next workflow before the previous worker left its except clause: that
\* worker has nothing left to do but return.
upload_thread_del_e_late ==
  /\ threads > (IF pc = "idle" THEN 0 ELSE 1)
  /\ threads' = threads - 1
  /\ UNCHANGED <<uiVars, logs_text, lastCall, queue, pc, closure, success, message, exc,
                 original_dir, temp_dir, envVars, histVars>>

----------------------------------------------------------------------------
\* commit_to_existing_repository

\* The check for .git and the clone of lines 671-692 left out.
commit_find_git_mut ==
  find_and_chdir("e_find", "e_cfg_name", "Error during commit operation: ")

\* lines 660-667
commit_find_git ==
  find_and_chdir("e_find", "e_git_check", "Error during commit operation: ")

\* lines 671-683: without .git, clone into a fresh temporary directory.
\* The clone has a timeout of 60 s.
commit_clone ==
  /\ pc = "e_git_check"
  /\ \/ /\ hasGit
        /\ Goto("e_cfg_name")
        /\ UNCHANGED <<temp_dir, tempDirs, trace, failed, logs_text>>
     \/ /\ ~hasGit
        /\ log_message("worker")
        /\ temp_dir' = TRUE
        /\ tempDirs' = tempDirs + 1
        /\ Issue("clone")
        /\ \/ /\ Goto("e_copy")
              /\ UNCHANGED failed
           \/ \E err \in {<<>>, AuthFailedText, <<"fatal: ", "clone", " failed">>} :
                /\ Return(FALSE, <<"Failed to clone repository: ">> \o err)
                /\ Fails("clone", err)
           \/ /\ Return(FALSE, <<"Git operation ", "timed out">>)
              /\ Fails("clone", <<"timed out">>)
  /\ WorkerStep
  /\ UNCHANGED <<original_dir, launcher_token, hasGit, origin, upstream, tree, ignoreCfg>>

\* lines 686-688: shutil.copytree of the cloned .git into the project
\* directory.  The clone's 'origin' is the URL it was cloned from, line 675,
\* with the token read from the form at line 674, and its branch tracks
\* the branch of origin.
commit_copytree ==
  /\ pc = "e_copy"
  /\ \/ /\ hasGit' = TRUE
        /\ \E token \in LiveTokens : origin' = remote_url(token)
        /\ upstream' = TRUE
        /\ tree' \in clone_trees(tree)
        /\ Goto("e_rmtree")
        /\ UNCHANGED failed
     \/ /\ hasGit' \in BOOLEAN
        /\ origin' = "none"
        /\ upstream' = FALSE
        /\ Return(FALSE, <<"Error during commit operation: ", "shutil.Error">>)
        /\ Fails("copytree", <<"shutil.Error">>)
        /\ UNCHANGED tree
  /\ WorkerStep
  /\ UNCHANGED <<original_dir, temp_dir, launcher_token, ignoreCfg, tempDirs, trace, logs_text>>

\* line 691: shutil.rmtree(temp_dir)
commit_rmtree ==
  /\ pc = "e_rmtree"
  /\ \/ /\ tempDirs' = tempDirs - 1
        /\ log_message("worker")
        /\ Goto("e_cfg_name")
        /\ UNCHANGED failed
     \/ /\ Return(FALSE, <<"Error during commit operation: ", "PermissionError">>)
        /\ Fails("rmtree", <<"PermissionError">>)
        /\ UNCHANGED <<tempDirs, logs_text>>
  /\ WorkerStep
  /\ UNCHANGED <<original_dir, temp_dir, launcher_token, hasGit, origin, upstream, tree, ignoreCfg, trace>>

\* A check=True git command of commit_to_existing_repository.
commit_checked(at, cmd, next) ==
  /\ pc = at
  /\ Issue(cmd)
  /\ \/ /\ Goto(next)
        /\ UNCHANGED <<failed, logs_text>>
     \/ \E res \in FailResults(cmd) :
          /\ CalledProcessError(commit_failure_message(cmd, res))
          /\ Fails(cmd, IF res.err # <<>> THEN res.err ELSE <<cmd>>)
     \/ Hangs
  /\ WorkerStep
  /\ UNCHANGED <<original_dir, temp_dir, launcher_token, hasGit, origin, upstream, tree,
                 ignoreCfg, tempDirs>>

\* line 695
commit_config_name ==
  commit_checked("e_cfg_name", "config", "e_cfg_email")

\* line 696
commit_config_email ==
  commit_checked("e_cfg_email", "config", "e_add")

\* get_selected_files: the selected entries in listbox order.
RECURSIVE selected_from(_, _)
selected_from(sel, i) ==
  IF i > Len(FileOrder) THEN <<>>
  ELSE (IF FileOrder[i] \in sel THEN <<FileOrder[i]>> ELSE <<>>) \o selected_from(sel, i + 1)

get_selected_files(sel) ==
  selected_from(sel, 1)

\* lines 714-715: git add <file> for each selected file, stopping at the
\* first that exits non-zero: [tree, n: commands issued, ok].
RECURSIVE add_each(_, _, _, _)
add_each(t, ign, files, n) ==
  IF files = <<>> THEN [tree |-> t, n |-> n, ok |-> TRUE]
  ELSE IF add_file_fails(t, ign, Head(files)) THEN [tree |-> t, n |-> n + 1, ok |-> FALSE]
  ELSE add_each(add_file(t, Head(files)), ign, Tail(files), n + 1)

\* lines 701-716: what the stage commands of a commit mode make of the
\* directory: [tree, n: commands issued, ok].
stage_files(t, ign, commit_mode, selected_files) ==
  IF commit_mode = "all" THEN [tree |-> add_all(t, ign), n |-> 1, ok |-> TRUE]
  ELSE IF commit_mode = "changed" THEN [tree |-> add_update(t), n |-> 1, ok |-> TRUE]
  ELSE add_each(t, ign, selected_files, 0)

\* lines 699-716: the commit mode and the selection are read from the
\* widgets now, whatever they were when the workflow was started; modes is
\* what the commit mode can be by then.
commit_add_in(modes) ==
  /\ pc = "e_add"
  /\ \E commit_mode \in modes \cap LiveModes, sel \in LiveSelections :
       LET r == stage_files(tree, ignoreCfg, commit_mode, get_selected_files(sel))
       IN \/ /\ r.ok
             /\ trace' = trace \o [i \in 1..r.n |-> "add"]
             /\ tree' = r.tree
             /\ log_message("worker")
             /\ Goto("e_status")
             /\ UNCHANGED failed
          \/ /\ ~r.ok
             /\ trace' = trace \o [i \in 1..r.n |-> "add"]
             /\ tree' = r.tree
             /\ CalledProcessError(commit_failure_message("add", [err |-> <<"fatal: pathspec">>]))
             /\ Fails("add", <<"fatal: pathspec">>)
          \/ /\ r.n > 0
             /\ Issue("add")
             /\ \E res \in FailResults("add") :
                  /\ CalledProcessError(commit_failure_message("add", res))
                  /\ Fails("add", IF res.err # <<>> THEN res.err ELSE <<"add">>)
             /\ UNCHANGED tree
          \/ /\ r.n > 0
             /\ Issue("add")
             /\ Hangs
             /\ UNCHANGED tree
  /\ WorkerStep
  /\ UNCHANGED <<original_dir, temp_dir, launcher_token, hasGit, origin, upstream, ignoreCfg, tempDirs>>

commit_add ==
  commit_add_in(CommitModes)

\* The user leaves the commit mode on "all".
commit_add_all ==
  commit_add_in({"all"})

\* The commit of lines 724-730 left out.
commit_status_mut ==
  status_check("e_status", "e_push", NoChangesFound)

commit_status ==
  status_check("e_status", "e_commit", NoChangesFound)

\* lines 724-730
commit_commit ==
  /\ pc = "e_commit"
  /\ Issue("commit")
  /\ \/ \E res \in CommitResults :
          IF res.rc = 0
            THEN /\ Goto("e_push")
                 /\ tree' = commit_tree(tree)
                 /\ log_message("worker")
                 /\ UNCHANGED failed
            ELSE /\ CalledProcessError(commit_failure_message("commit", res))
                 /\ Fails("commit", IF res.err # <<>> THEN res.err ELSE res.out)
                 /\ UNCHANGED tree
     \/ /\ Hangs
        /\ UNCHANGED tree
  /\ WorkerStep
  /\ UNCHANGED <<original_dir, temp_dir, launcher_token, hasGit, origin, upstream, ignoreCfg, tempDirs>>

\* What `git push` without a destination does: with no upstream configured
\* for the current branch git (push.default = simple) exits non-zero.
NoUpstreamText == <<"fatal: ", "The current branch main has no upstream branch.">>

PlainPushResults(up) ==
  IF up THEN PushResults ELSE {[rc |-> 128, out |-> <<>>, err |-> NoUpstreamText]}

\* lines 738-747: git push; the command has a timeout of 60 s.
commit_push ==
  /\ pc = "e_push"
  /\ Issue("push")
  /\ \/ \E res \in PlainPushResults(upstream) :
          /\ log_message("worker")
          /\ IF res.rc = 0
               THEN /\ Return(TRUE, <<"Changes successfully committed to ">>
                                    \o RepoUrl(closure.username, closure.repo_name))
                    /\ UNCHANGED failed
               ELSE /\ Return(FALSE, existing_push_message(res))
                    /\ Fails("push", res.out \o res.err)
     \/ /\ Return(FALSE, <<"Git operation ", "timed out">>)
        /\ Fails("push", <<"timed out">>)
        /\ UNCHANGED logs_text
  /\ WorkerStep
  /\ UNCHANGED <<original_dir, temp_dir, launcher_token, hasGit, origin, upstream, tree,
                 ignoreCfg, tempDirs>>

----------------------------------------------------------------------------
UI ==
  \/ upload_to_github_busy
  \/ upload_to_github_invalid
  \/ upload_to_github_start
  \/ cb_update_progress
  \/ cb_log_created
  \/ cb_upload_failed
  \/ cb_upload_succeeded
  \/ cb_upload_failed_exc

Worker ==
  \/ upload_thread_start
  \/ upload_thread_create
  \/ upload_thread_check
  \/ init_find_git
  \/ init_git_init
  \/ init_config_name
  \/ init_config_email
  \/ init_gitignore
  \/ init_add
  \/ init_status
  \/ init_commit
  \/ init_branch
  \/ init_remote_add
  \/ init_push
  \/ commit_find_git
  \/ commit_clone
  \/ commit_copytree
  \/ commit_rmtree
  \/ commit_config_name
  \/ commit_config_email
  \/ commit_add
  \/ commit_status
  \/ commit_commit
  \/ commit_push
  \/ upload_thread_del_e

Next ==
  UI \/ Worker \/ upload_thread_del_e_late

Spec ==
  Init /\ [][Next]_vars

\* One press of the button per form: the project directory is a plain
\* directory with two files, and the form is whatever the user typed.
InitForm ==
  /\ Constructed
  /\ ~hasGit
  /\ tree = [f \in Files |-> IF f = ".gitignore" THEN "absent" ELSE "untracked"]
  /\ runs = MaxRuns - 1
  /\ form \in FormInputs
  /\ cred = NoCred
  /\ call = NoCall
  /\ widgets = NoWidgets
  /\ auth = NoAuth

UIForm ==
  \/ upload_to_github_busy
  \/ upload_to_github_form
  \/ cb_update_progress
  \/ cb_log_created
  \/ cb_upload_failed
  \/ cb_upload_succeeded
  \/ cb_upload_failed_exc

NextForm ==
  UIForm \/ Worker

SpecForm ==
  InitForm /\ [][NextForm]_vars

\* Two workflows in existing mode with the "all" selection on the same
\* directory, the second started after the first has succeeded; nothing but
\* the workflow touches the directory.
FormTwice ==
  [username |-> <<"octo", " ">>, password |-> <<"ghp_tok">>, project_path |-> <<"proj">>,
   repo_name |-> <<" ", "demo">>, repo_mode |-> "existing", commit_mode |-> "all",
   selected_files |-> {}]

InitTwice ==
  /\ Constructed
  /\ runs = MaxRuns - 2
  /\ form = FormTwice
  /\ cred = NoCred
  /\ call = NoCall
  /\ widgets = NoWidgets
  /\ auth = NoAuth

upload_to_github_again ==
  /\ ~Busy
  /\ runs = MaxRuns - 2 \/ dialog.title = "Success"
  /\ validate(form) = <<>>
  /\ runs < MaxRuns
  /\ Accept(closure_of(form))

NextTwice ==
  \/ upload_to_github_busy
  \/ upload_to_github_again
  \/ cb_update_progress
  \/ cb_upload_failed
  \/ cb_upload_succeeded
  \/ cb_upload_failed_exc
  \/ upload_thread_start
  \/ upload_thread_check
  \/ commit_find_git
  \/ commit_clone
  \/ commit_copytree
  \/ commit_rmtree
  \/ commit_config_name
  \/ commit_config_email
  \/ commit_add_all
  \/ commit_status
  \/ commit_commit
  \/ commit_push
  \/ upload_thread_del_e

SpecTwice ==
  InitTwice /\ [][NextTwice]_vars

\* One workflow whose widgets are tracked: form is what the fields held when
\* the button was pressed, widgets what they hold now.  While the workflow is
\* in flight the user edits one of them: the token, the commit mode or the
\* selection.
LiveForms ==
  {[FormTwice EXCEPT !.password = t, !.repo_mode = rm, !.commit_mode = cm,
                     !.selected_files = {"a.txt"}] :
     t \in {<<"ghp_tok">>, <<" ", "ghp_tok">>}, rm \in RepoModes, cm \in CommitModes}

InitLive ==
  /\ Constructed
  /\ runs = MaxRuns - 1
  /\ form \in LiveForms
  /\ cred = NoCred
  /\ call = NoCall
  /\ widgets = [tracked |-> TRUE, password |-> form.password,
                commit_mode |-> form.commit_mode,
                selected_files |-> form.selected_files, log_created |-> <<>>]
  /\ auth = NoAuth

\* Nothing disables the fields while a workflow runs: the user retypes the
\* token, picks another commit mode or clears the selection.
edit_widgets ==
  /\ is_uploading
  /\ widgets.password = form.password
  /\ widgets.commit_mode = form.commit_mode
  /\ widgets.selected_files = form.selected_files
  /\ \/ \E t \in LiveTokenVals \ {form.password} : widgets' = [widgets EXCEPT !.password = t]
     \/ \E cm \in CommitModes \ {form.commit_mode} :
          widgets' = [widgets EXCEPT !.commit_mode = cm]
     \/ /\ form.selected_files # {}
        /\ widgets' = [widgets EXCEPT !.selected_files = {}]
  /\ UNCHANGED <<uiVars, logs_text, lastCall, queue, workerVars, envVars, trace, failed,
                 steps, response, runs, form, cred, call, auth>>

NextLive ==
  \/ upload_to_github_busy
  \/ upload_to_github_form
  \/ edit_widgets
  \/ cb_update_progress
  \/ cb_log_created
  \/ cb_upload_failed
  \/ cb_upload_succeeded
  \/ cb_upload_failed_exc
  \/ Worker

SpecLive ==
  InitLive /\ [][NextLive]_vars

----------------------------------------------------------------------------
\* Saved credentials: encode_credentials, decode_credentials,
\* save_credentials and load_credentials.  A text typed into a credential
\* field is a sequence of one-character chunks.

\* Longest text typed into a credential field.
MaxLen == 2

CredChars == {" ", "a", "é"}

\* The code point of a character
ord(c) ==
  CASE c = " " -> 32 [] c = "a" -> 97 [] c = "é" -> 233

CredTexts ==
  UNION {[1..n -> CredChars] : n \in 0..MaxLen}

\* str.encode(): the UTF-8 bytes of a text
RECURSIVE utf8_encode(_)
utf8_encode(text) ==
  IF text = <<>> THEN <<>>
  ELSE LET n == ord(Head(text)) IN
       (IF n < 128 THEN <<n>>
        ELSE IF n < 2048 THEN <<192 + (n \div 64), 128 + (n % 64)>>
        ELSE <<224 + (n \div 4096), 128 + ((n \div 64) % 64), 128 + (n % 64)>>)
       \o utf8_encode(Tail(text))

\* bytes.decode(): [ok, text]; ok is false where UnicodeDecodeError is raised.
\* A code point outside CredChars is shown by its number.
RECURSIVE utf8_decode(_)
utf8_decode(b) ==
  LET chr(n) == IF \E c \in CredChars : ord(c) = n
                  THEN CHOOSE c \in CredChars : ord(c) = n
                  ELSE ToString(n)
      cont(i) == i <= Len(b) /\ b[i] >= 128 /\ b[i] < 192
      more(k, n) == LET rest == utf8_decode(SubSeq(b, k + 1, Len(b)))
                    IN [ok |-> rest.ok, text |-> <<chr(n)>> \o rest.text]
      bad == [ok |-> FALSE, text |-> <<>>]
  IN IF b = <<>> THEN [ok |-> TRUE, text |-> <<>>]
     ELSE IF b[1] < 128 THEN more(1, b[1])
     ELSE IF b[1] >= 194 /\ b[1] < 224 /\ cont(2)
       THEN more(2, (b[1] - 192) * 64 + (b[2] - 128))
     ELSE IF b[1] >= 224 /\ b[1] < 240 /\ cont(2) /\ cont(3)
             /\ (b[1] = 224 => b[2] >= 160) /\ (b[1] = 237 => b[2] < 160)
       THEN more(3, (b[1] - 224) * 4096 + (b[2] - 128) * 64 + (b[3] - 128))
     ELSE bad

\* The base64 alphabet, value 0 first.
B64 ==
  <<"A", "B", "C", "D", "E", "F", "G", "H", "I", "J", "K", "L", "M", "N", "O", "P",
    "Q", "R", "S", "T", "U", "V", "W", "X", "Y", "Z", "a", "b", "c", "d", "e", "f",
    "g", "h", "i", "j", "k", "l", "m", "n", "o", "p", "q", "r", "s", "t", "u", "v",
    "w", "x", "y", "z", "0", "1", "2", "3", "4", "5", "6", "7", "8", "9", "+", "/">>

\* base64.b64encode: three bytes to four characters, padded with "=".
RECURSIVE b64encode(_)
b64encode(b) ==
  IF b = <<>> THEN <<>>
  ELSE IF Len(b) = 1
    THEN <<B64[(b[1] \div 4) + 1], B64[(b[1] % 4) * 16 + 1], "=", "=">>
  ELSE IF Len(b) = 2
    THEN <<B64[(b[1] \div 4) + 1], B64[(b[1] % 4) * 16 + (b[2] \div 16) + 1],
           B64[(b[2] % 16) * 4 + 1], "=">>
  ELSE <<B64[(b[1] \div 4) + 1], B64[(b[1] % 4) * 16 + (b[2] \div 16) + 1],
         B64[(b[2] % 16) * 4 + (b[3] \div 64) + 1], B64[(b[3] % 64) + 1]>>
       \o b64encode(SubSeq(b, 4, Len(b)))

\* base64.b64decode: [ok, bytes]; characters outside the alphabet are
\* discarded, and ok is false where binascii.Error is raised.
RECURSIVE b64decode_from(_)
b64decode_from(s) ==
  LET v(i) == (CHOOSE k \in 1..64 : B64[k] = s[i]) - 1
      b1 == v(1) * 4 + (v(2) \div 16)
      b2 == (v(2) % 16) * 16 + (v(3) \div 4)
      b3 == (v(3) % 4) * 64 + v(4)
      rest == b64decode_from(SubSeq(s, 5, Len(s)))
      bad == [ok |-> FALSE, bytes |-> <<>>]
  IN IF s = <<>> THEN [ok |-> TRUE, bytes |-> <<>>]
     ELSE IF Len(s) < 4 \/ s[1] = "=" \/ s[2] = "=" THEN bad
     ELSE IF s[3] = "=" THEN (IF s[4] = "=" THEN [ok |-> TRUE, bytes |-> <<b1>>] ELSE bad)
     ELSE IF s[4] = "=" THEN [ok |-> TRUE, bytes |-> <<b1, b2>>]
     ELSE [ok |-> rest.ok, bytes |-> <<b1, b2, b3>> \o rest.bytes]

b64decode(s) ==
  b64decode_from(SelectSeq(s, LAMBDA c : c = "=" \/ \E k \in 1..64 : B64[k] = c))

\* The text stored as it is.
encode_credentials_mut(text) ==
  text

\* encode_credentials, lines 828-830
encode_credentials(text) ==
  b64encode(utf8_encode(text))

\* decode_credentials, lines 832-837: "" on any exception.
decode_credentials(encoded_text) ==
  LET b == b64decode(encoded_text) IN
  IF ~b.ok THEN <<>>
  ELSE IF ~utf8_decode(b.bytes).ok THEN <<>>
  ELSE utf8_decode(b.bytes).text

\* ConfigParser.set and ConfigParser.get with fallback=''
config_set(cfg, key, value) ==
  [k \in DOMAIN cfg \cup {key} |-> IF k = key THEN value ELSE cfg[k]]

config_get(cfg, key) ==
  IF key \in DOMAIN cfg THEN cfg[key] ELSE <<>>

\* Writing config.ini into the project directory changes what git sees there.
written(t) ==
  [t EXCEPT !["config.ini"] = IF @ = "absent" THEN "untracked"
                               ELSE IF @ = "clean" THEN "modified" ELSE @]

\* save_credentials, lines 839-869.  open('config.ini', 'w') names the file
\* in the working directory of the process.
save_credentials ==
  /\ LET username == strip(form.username)
         token == strip(form.password)
         config == config_set(config_set(cred.config, "username_encoded",
                                         encode_credentials(username)),
                              "token_encoded", encode_credentials(token))
     IN IF username = <<>> \/ token = <<>>
          THEN /\ showerror(<<"Please enter both username and Personal Access Token before saving">>)
               /\ UNCHANGED <<cred, tree, logs_text>>
          ELSE \/ /\ cred' = [cred EXCEPT !.config = config, !.files[cwd] = config,
                                          !.saved = <<username, token>>]
                  /\ tree' = IF cwd = ProjDir THEN written(tree) ELSE tree
                  /\ dialog' = [title |-> "Success",
                                text |-> <<"Credentials saved to config.ini">>]
                  /\ log_message("ui")
               \/ \* the file cannot be written
                  /\ cred' = [cred EXCEPT !.config = config]
                  /\ showerror(<<"Failed to save credentials: ", "PermissionError">>)
                  /\ log_message("ui")
                  /\ UNCHANGED tree
  /\ UNCHANGED <<is_uploading, upload_button, progress_bar, status_var, progress_var,
                 lastCall, queue, workerVars, launcher_token, cwd, hasGit, origin, upstream,
                 ignoreCfg, tempDirs, trace, failed, steps, response, runs, form, call, widgets, auth>>

\* load_credentials, lines 871-887: what the fields are set to, if at all.
load_credentials(cfg) ==
  LET encoded_username == config_get(cfg, "username_encoded")
      encoded_token == config_get(cfg, "token_encoded")
      username == decode_credentials(encoded_username)
      token == decode_credentials(encoded_token)
  IN IF encoded_username # <<>> /\ encoded_token # <<>> /\ username # <<>> /\ token # <<>>
       THEN [set |-> TRUE, username |-> username, token |-> token]
       ELSE [set |-> FALSE, username |-> <<>>, token |-> <<>>]

\* The application is closed while no workflow runs and started again from
\* the same directory: MainWindow.__init__ reads config.ini (lines 30-31),
\* the fields are created empty and load_credentials fills them (line 265).
restart ==
  /\ ~cred.restarted
  /\ pc = "idle" /\ queue = <<>> /\ threads = 0
  /\ LET cfg == cred.files[AppDir] IN
       /\ cred' = [cred EXCEPT !.config = cfg, !.restarted = TRUE]
       /\ form' = [NoForm EXCEPT !.username = load_credentials(cfg).username,
                                 !.password = load_credentials(cfg).token]
       /\ logs_text' = IF load_credentials(cfg).set THEN "ui" ELSE "none"
  /\ is_uploading' = FALSE
  /\ upload_button' = "normal"
  /\ progress_bar' = "stopped"
  /\ status_var' = <<"Enter your GitHub credentials and select a project folder">>
  /\ progress_var' = <<"Ready">>
  /\ dialog' = NoDialog
  /\ lastCall' = "none"
  /\ closure' = NoClosure
  /\ success' = "unset"
  /\ message' = <<>>
  /\ exc' = NoExc
  /\ original_dir' = AppDir
  /\ temp_dir' = FALSE
  /\ launcher_token' = <<>>
  /\ cwd' = AppDir
  /\ trace' = <<>>
  /\ failed' = NoFail
  /\ steps' = <<>>
  /\ response' = "none"
  /\ UNCHANGED <<queue, pc, threads, hasGit, origin, upstream, tree, ignoreCfg, tempDirs, runs, call, widgets, auth>>

\* A config.ini written by hand: the entries GitHubLauncher reads
\* (github_launcher.py, lines 27-29) and two encoded entries, the first of
\* which does not decode.
HandWritten ==
  [k \in {"username", "token", "username_encoded", "token_encoded"} |->
     CASE k = "username" -> <<"a">>
       [] k = "token" -> <<"a">>
       [] k = "username_encoded" -> <<"a">>
       [] k = "token_encoded" -> <<"Y", "Q", "=", "=">>]

\* One session and the next: the user types a username and a token, saves
\* them at any moment, runs one workflow in existing mode on a repository
\* with a modified file, and restarts the application once.
InitCred ==
  /\ Constructed
  /\ hasGit
  /\ tree = [f \in Files |-> IF f = "a.txt" THEN "modified"
                             ELSE IF f = "config.ini" THEN "untracked" ELSE "absent"]
  /\ runs = MaxRuns - 1
  /\ form \in {[FormTwice EXCEPT !.username = u, !.password = t] :
                 u \in CredTexts, t \in {x \in CredTexts : Len(x) <= 1}}
  /\ cred \in {[NoCred EXCEPT !.start = c, !.config = c, !.files[AppDir] = c] :
                 c \in {EmptyConfig, HandWritten}}
  /\ call = NoCall
  /\ widgets = NoWidgets
  /\ auth = NoAuth

NextCred ==
  \/ save_credentials
  \/ restart
  \/ upload_to_github_form
  \/ cb_update_progress
  \/ cb_upload_failed
  \/ cb_upload_succeeded
  \/ cb_upload_failed_exc
  \/ upload_thread_start
  \/ upload_thread_check
  \/ commit_find_git
  \/ commit_clone
  \/ commit_config_name
  \/ commit_config_email
  \/ commit_add_all
  \/ commit_status
  \/ commit_commit
  \/ commit_push
  \/ upload_thread_del_e

SpecCred ==
  InitCred /\ [][NextCred]_vars

----------------------------------------------------------------------------
\* The API functions and the stage commands applied on their own, each to
\* one argument drawn when the behaviour starts.

\* A username, a repository name and a response: a status code with a body
\* that is JSON or not, or an exception raised by the request.
ApiArgs ==
  {[kind |-> "api", username |-> u, repo_name |-> n, r |-> r] :
     u \in {<<"octo">>, <<"a">>}, n \in {<<"demo">>, <<"x">>},
     r \in {x \in [exc : BOOLEAN,
                   status : {0, 200, 201, 204, 301, 400, 401, 403, 404, 422, 500, 503},
                   already : BOOLEAN, json : BOOLEAN, text : {"", "body"}] :
              /\ x.exc <=> x.status = 0
              /\ x.already => (x.status = 422 /\ x.json)
              /\ x.text = "" <=> x.exc
              /\ x.exc => ~x.json}}

\* A directory as git sees it, the ignore rule, a commit mode and the
\* selected paths in some order.
StageArgs ==
  {[kind |-> "stage", tree |-> t, ign |-> i, commit_mode |-> m, selected_files |-> f] :
     t \in [Files -> FileStates], i \in BOOLEAN, m \in CommitModes,
     f \in {<<>>, <<"a.txt">>, <<"config.ini">>,
            <<"a.txt", "config.ini">>, <<"config.ini", "a.txt">>}}

\* GitHubLauncher.check_repository_exists (github_launcher.py, lines 83-100),
\* which nothing in the application calls: the results it can have, each
\* <<"True" | "False" | "raised", value>>.  On a
\* 200 it parses the body (line 90); the error of a body that is not JSON is
\* a RequestException in some versions of requests and a plain ValueError,
\* which line 99 does not catch, in others.
launcher_check_repository_exists(owner, repo, r) ==
  IF r.exc THEN {<<"False", <<"Network error: ", "ConnectionError">>>>}
  ELSE IF r.status = 200
    THEN IF r.json THEN {<<"True", <<"repo_data">>>>}
         ELSE {<<"False", <<"Network error: ", "JSONDecodeError">>>>,
               <<"raised", <<"ValueError">>>>}
  ELSE IF r.status = 404 THEN {<<"False", <<"Repository not found or not accessible">>>>}
  ELSE IF r.status = 401 THEN {<<"False", <<"Authentication failed - check credentials">>>>}
  ELSE {<<"False", <<"GitHub API error: ", StatusText(r.status)>>>>}

\* The function fn is applied to the argument and gives one of results.
Applied(kind, fn, results) ==
  /\ call.fn = "none" /\ call.arg.kind = kind
  /\ \E res \in results : call' = [call EXCEPT !.fn = fn, !.result = res]
  /\ UNCHANGED <<uiVars, logs_text, lastCall, queue, workerVars, envVars, trace, failed,
                 steps, response, runs, form, cred, widgets, auth>>

call_create_github_repository ==
  Applied("api", "create_github_repository",
          {create_github_repository(call.arg.repo_name, call.arg.r)})

call_check_repository_exists ==
  Applied("api", "check_repository_exists",
          {check_repository_exists(call.arg.username, call.arg.repo_name, call.arg.r)})

call_launcher_check_repository_exists ==
  Applied("api", "GitHubLauncher.check_repository_exists",
          launcher_check_repository_exists(call.arg.username, call.arg.repo_name, call.arg.r))

call_stage_files ==
  Applied("stage", "stage_files",
          {stage_files(call.arg.tree, call.arg.ign, call.arg.commit_mode,
                       call.arg.selected_files)})

\* An installation: what the version query of each path does.
ProbeArgs ==
  {[kind |-> "probe", env |-> e] :
     e \in [{common_git_paths[i] : i \in 1..Len(common_git_paths)} -> ProbeOutcomes]}

\* The candidates of find_git in check_git.py, lines 11-19.
check_git_paths ==
  <<"git", "C:\\Program Files\\Git\\bin\\git.exe", "C:\\Program Files\\Git\\cmd\\git.exe",
    "C:\\Program Files (x86)\\Git\\bin\\git.exe", "C:\\Program Files (x86)\\Git\\cmd\\git.exe",
    "C:\\Git\\bin\\git.exe", "C:\\Git\\cmd\\git.exe">>

\* find_git of check_git.py, lines 21-30: (git_path, version) of the first
\* candidate from i on whose version query exits 0, (None, None) if none does.
RECURSIVE find_git(_, _)
find_git(env, i) ==
  IF i > Len(check_git_paths) THEN [path |-> "None", version |-> "None"]
  ELSE IF env[check_git_paths[i]] = "ok"
    THEN [path |-> check_git_paths[i], version |-> "git version"]
  ELSE find_git(env, i + 1)

\* find_git_executable on an installation: the path returned, or None.
call_find_git_executable ==
  Applied("probe", "find_git_executable",
          LET git == find_git_executable([i \in 1..Len(common_git_paths) |->
                                            call.arg.env[common_git_paths[i]]])
          IN {[path |-> IF git = 0 THEN "None" ELSE common_git_paths[git]]})

call_find_git ==
  Applied("probe", "find_git", {find_git(call.arg.env, 1)})

InitCall ==
  /\ Constructed
  /\ ~hasGit
  /\ tree = [f \in Files |-> IF f = ".gitignore" THEN "absent" ELSE "untracked"]
  /\ runs = 0
  /\ form = NoForm
  /\ cred = NoCred
  /\ widgets = NoWidgets
  /\ auth = NoAuth
  /\ call \in {[fn |-> "none", arg |-> a, result |-> <<>>] : a \in ApiArgs \cup StageArgs \cup ProbeArgs}

NextCall ==
  \/ call_create_github_repository
  \/ call_check_repository_exists
  \/ call_launcher_check_repository_exists
  \/ call_stage_files
  \/ call_find_git_executable
  \/ call_find_git

SpecCall ==
  InitCall /\ [][NextCall]_vars

----------------------------------------------------------------------------
\* Properties of the workflow

\* The callbacks that notify the end of a workflow.
Terminal == {"upload_failed", "upload_succeeded", "upload_failed_exc"}

\* A workflow is in flight from the start of its worker until its final
\* notification has run.
InFlight ==
  \/ pc \notin {"idle", "del_e"}
  \/ \E i \in 1..Len(queue) : queue[i].fn \in Terminal

\* The worker has returned and every callback it posted has run.
Done ==
  pc = "idle" /\ queue = <<>>

\* The run ended in upload_thread's except clause.
Crashed ==
  steps # <<>> /\ steps[Len(steps)] = "del_e"

NothingReasons == {NoFilesFound, NoChangesFound}

\* C1: at most one workflow is in flight.  A worker is started only when no
\* workflow is in flight, and is_uploading is set by then and stays set while
\* the workflow is in flight; a call of upload_to_github made while
\* is_uploading is true changes nothing (no thread, no request, no command,
\* no widget); is_uploading is cleared only by a step that runs
\* upload_succeeded or upload_failed.
C1_SingleInFlight ==
  /\ [](InFlight => is_uploading)
  /\ [][/\ threads' > threads => (~InFlight /\ ~is_uploading /\ is_uploading')
        /\ (is_uploading /\ lastCall' # lastCall) =>
              /\ lastCall' = "ignored"
              /\ UNCHANGED <<uiVars, logs_text, queue, workerVars, envVars, histVars>>
        /\ (is_uploading /\ ~is_uploading') =>
              /\ queue # <<>> /\ Head(queue).fn \in Terminal
              /\ dialog'.title \in {"Upload Failed", "Success"}]_vars

\* A press of the button was ignored while the worker was issuing commands.
C1_Witness ==
  lastCall = "ignored" /\ InFlight /\ is_uploading /\ threads = 1 /\ trace # <<>>

\* The message shown carries the reason of the failure f.  The commit and
\* push steps report a classification of their output, which must at least
\* not be the nothing-to-commit reason; every other step reports its output.
Carries(text, f) ==
  IF f.step \in {"commit", "push"}
    THEN \A n \in NothingReasons : ~Contains(text, n)
    ELSE Contains(text, f.text)

\* C2: once a step of a run has failed, no further request or command of
\* that run is issued, and (unless an unexpected exception was raised on the
\* way) the run ends with the failure dialog, is_uploading cleared, and a
\* message that carries the reason of the step that failed.
C2_ShortCircuit ==
  /\ [][failed.step # "none" => (trace' = trace \/ trace' = <<>>)]_vars
  /\ []((failed.step # "none" /\ Done /\ ~Crashed) =>
          /\ dialog.title = "Upload Failed"
          /\ ~is_uploading
          /\ Carries(dialog.text, failed))

\* The phase of the workflow a statement of the worker belongs to:
\* 1 Creating or Verifying, 2 Preparing, 3 Staging, 4 Committing, 5 Pushing,
\* 6 Done.
Rank(p) ==
  CASE p \in {"start", "create", "exists"} -> 1
    [] p \in {"n_find", "n_init", "n_cfg_name", "n_cfg_email", "n_ignore", "e_find",
              "e_git_check", "e_copy", "e_rmtree", "e_cfg_name", "e_cfg_email"} -> 2
    [] p \in {"n_add", "e_add"} -> 3
    [] p \in {"n_status", "n_commit", "e_status", "e_commit"} -> 4
    [] p \in {"n_branch", "n_remote", "n_push", "e_push"} -> 5
    [] OTHER -> 6

\* The statements the worker of this run has executed.
StepSet ==
  {steps[i] : i \in 1..Len(steps)}

NewOnly == {"create", "n_find", "n_init", "n_cfg_name", "n_cfg_email", "n_ignore",
            "n_add", "n_status", "n_commit", "n_branch", "n_remote", "n_push"}
ExistingOnly == {"exists", "e_find", "e_git_check", "e_copy", "e_rmtree", "e_cfg_name",
                 "e_cfg_email", "e_add", "e_status", "e_commit", "e_push"}

\* C3: a run starts after validation, visits the phases Creating or
\* Verifying, Preparing, Staging, Committing, Pushing in this order, each
\* statement at most once, moving from a phase to itself, to the next one or
\* to Done, and mixes no statement of the other mode in; push is issued only
\* after a commit of the run succeeded, commit only after the staging step,
\* and a staging command only after the create or exists request succeeded.
C3_LinearOrder ==
  /\ [][pc' # pc =>
          IF pc' = "start"
            THEN lastCall' = "started" /\ steps' = <<>>
            ELSE /\ pc \notin StepSet
                 /\ Rank(pc') \in {Rank(pc), Rank(pc) + 1, 6}
                 /\ pc' \in NewOnly => (StepSet \cup {pc}) \cap ExistingOnly = {}
                 /\ pc' \in ExistingOnly => (StepSet \cup {pc}) \cap NewOnly = {}]_vars
  /\ [][/\ (Len(trace') > Len(trace) /\ trace'[Len(trace')] = "push") =>
              /\ \E i \in 1..Len(trace) : trace[i] = "commit"
              /\ failed.step = "none" /\ Staged(tree) = {}
        /\ (Len(trace') > Len(trace) /\ trace'[Len(trace')] = "commit") =>
              /\ \E i \in 1..Len(steps) : steps[i] \in {"n_add", "e_add"}
              /\ failed.step = "none"
        /\ (Len(trace') > Len(trace) /\ trace'[Len(trace')] = "add") =>
              /\ trace[1] \in {"create", "exists"}
              /\ response \in {"201", "200"}]_vars

\* A run went through every phase and pushed.
C3_Witness ==
  /\ Done /\ dialog.title = "Success"
  /\ \E i \in 1..Len(steps) : steps[i] = "e_push"
  /\ \E i \in 1..Len(trace) : trace[i] = "commit"

\* C4: when the staging step has staged nothing, the status check ends the
\* run with success = False and the nothing-to-commit reason, and git commit
\* is never issued with nothing staged, in both modes and whatever the
\* commit mode, also when untracked or unstaged files are left.
C4_NothingToCommit ==
  [][/\ (pc \in {"n_status", "e_status"} /\ Staged(tree) = {} /\ pc' # pc) =>
          (pc' = "idle" /\ success' = FALSE /\ message' \in NothingReasons)
     /\ (Len(trace') > Len(trace) /\ trace'[Len(trace')] = "commit") =>
          Staged(tree) # {}]_vars

\* C5: when an exception has reached upload_thread's except clause, then
\* once the worker has returned and its callbacks have run, upload_failed
\* has run: the failure dialog is shown, is_uploading is cleared and the
\* upload button is enabled.
C5_NoSilentCrash ==
  (Crashed /\ Done) =>
     /\ dialog.title = "Upload Failed"
     /\ ~is_uploading
     /\ upload_button = "normal"

\* A field that is empty once trimmed.
Blank(text) ==
  \A i \in 1..Len(text) : text[i] = " "

\* The form has one of the validation errors.
FormInvalid ==
  \/ Blank(form.username) \/ Blank(form.password)
  \/ Blank(form.project_path) \/ Blank(form.repo_name)
  \/ ~path_exists(strip(form.project_path))
  \/ (form.repo_mode = "existing" /\ form.commit_mode = "selected"
      /\ form.selected_files = {})

C7_AlreadyExistsTerminal ==
  response = "422 already exists" =>
     /\ trace = <<"create">> /\ steps = <<"start", "create">>
     /\ pc = "idle"
     /\ queue = <<>> =>
          /\ dialog.title = "Upload Failed"
          /\ Contains(dialog.text, <<"' already exists">>)
          /\ ~is_uploading /\ upload_button = "normal"

C7_Witness ==
  /\ response = "422 already exists" /\ Done
  /\ dialog.title = "Upload Failed" /\ hasGit = FALSE

\* The reason check_repository_exists gives for a response.
ExistsReason(resp) ==
  CASE resp = "404" -> <<"' not found in ">>
    [] resp = "401" -> <<"Authentication failed - check your Personal Access Token">>
    [] resp = "network error" -> <<"Error checking repository: ">>
    [] OTHER -> <<"GitHub API error: ">>

\* C8: in existing mode, once the exists request was answered with anything
\* but 200 (404, 401, another status, a network error), the worker has
\* returned having issued the exists request only (no clone, add, commit or
\* push), and its notification is the failure dialog with that reason.
C8_ExistsFailureTerminal ==
  (trace # <<>> /\ trace[1] = "exists" /\ response # "200") =>
     /\ trace = <<"exists">> /\ steps = <<"start", "exists">>
     /\ pc = "idle"
     /\ queue = <<>> =>
          /\ dialog.title = "Upload Failed"
          /\ Contains(dialog.text, <<"Repository check failed: ">>)
          /\ Contains(dialog.text, ExistsReason(response))
          /\ ~is_uploading /\ upload_button = "normal"

C8_Witness ==
  /\ trace = <<"exists">> /\ response = "404" /\ Done
  /\ dialog.title = "Upload Failed"

\* C9: when the worker has returned, no temporary directory is left.
C9_TempDirsRemoved ==
  pc = "idle" => tempDirs = 0

\* The output holds one of the substrings of an authentication failure.
AuthInOutput(text) ==
  \/ Contains(lower(text), <<"authentication failed">>)
  \/ Contains(lower(text), <<"invalid username or password">>)

AuthClassified ==
  <<"Git push authentication failed. Please check your Personal Access Token permissions.">>

\* C10: when git push has failed and its stdout and stderr together hold
\* an authentication-failure substring, the failure reported is the
\* authentication-failed classification, in both modes.
C10_AuthClassified ==
  (failed.step = "push" /\ AuthInOutput(failed.text) /\ Done
   /\ dialog.title = "Upload Failed") =>
     Contains(dialog.text, AuthClassified)

\* C11: once a workflow has reached Done, the URL of the project's remote
\* 'origin' does not hold the token.
C11_OriginWithoutToken ==
  (Done /\ runs > 0) => origin # "token"

\* C12: in both modes an ignore-rule file that excludes config.ini is in
\* place whenever a stage command is about to run, and config.ini is never
\* among the staged files.
C12_ConfigNeverStaged ==
  /\ pc \in {"n_add", "e_add"} => (tree[".gitignore"] # "absent" /\ ignoreCfg)
  /\ tree["config.ini"] # "staged"

\* C13: of two workflows in existing mode with the "all" selection on the
\* same directory, the second started after the first succeeded and with
\* no file changed in between: the second issues no commit and no push,
\* never ends in the success dialog, and once its status command has run
\* it ends in the failure dialog with the nothing-to-commit reason.
C13_SecondRunNothingToCommit ==
  runs = MaxRuns =>
    /\ \A i \in 1..Len(trace) : trace[i] \notin {"commit", "push"}
    /\ dialog.title # "Success"
    /\ (Done /\ \E i \in 1..Len(trace) : trace[i] = "status") =>
          /\ dialog.title = "Upload Failed"
          /\ Contains(dialog.text, NoChangesFound)
          /\ ~is_uploading

C13_Witness ==
  /\ runs = MaxRuns /\ Done
  /\ trace = <<"exists", "version", "config", "config", "add", "status">>
  /\ failed.step = "nothing"
  /\ Contains(dialog.text, NoChangesFound)

----------------------------------------------------------------------------
\* Properties of the saved credentials

\* A text in base64 form
Base64Text(v) ==
  /\ Len(v) % 4 = 0
  /\ \A i \in 1..Len(v) : v[i] = "=" \/ \E k \in 1..64 : B64[k] = v[i]

C15_SavedPairRestored ==
  /\ \A x \in {form.username, form.password, strip(form.username)} :
       decode_credentials(encode_credentials(x)) = x
  /\ (cred.restarted /\ cred.saved # <<>>) =>
        /\ form.username = cred.saved[1]
        /\ form.password = cred.saved[2]

----------------------------------------------------------------------------
\* Properties of the functions

NotFoundReason(msg) == Contains(msg, <<"' not found in ">>)
AuthFailedReason(msg) == Len(msg) = 1 /\ msg[1] \in
  {"Authentication failed - check your Personal Access Token",
   "Authentication failed - check your Personal Access Token permissions (needs 'repo' scope)"}
PermissionDeniedReason(msg) ==
  msg = <<"Permission denied - check your Personal Access Token has 'repo' scope enabled">>
AlreadyExistsReason(msg) == Contains(msg, <<"' already exists">>)
GenericReason(msg) == msg # <<>> /\ msg[1] = "GitHub API error: "

\* C17: every response of create_github_repository and
\* check_repository_exists whose status is not 2xx is mapped to exactly one
\* of not-found, auth-failed, permission-denied, already-exists and generic
\* API error, and the generic reason holds the status code and the body.
C17_FixedReasons ==
  (/\ call.fn \in {"create_github_repository", "check_repository_exists"}
   /\ ~call.arg.r.exc
   /\ call.arg.r.status \notin 200..299) =>
     LET msg == call.result[2] IN
     /\ Cardinality({i \in 1..5 :
                       <<NotFoundReason(msg), AuthFailedReason(msg),
                         PermissionDeniedReason(msg), AlreadyExistsReason(msg),
                         GenericReason(msg)>>[i]}) = 1
     /\ GenericReason(msg) =>
           /\ Contains(msg, <<StatusText(call.arg.r.status)>>)
           /\ Contains(msg, <<call.arg.r.text>>)

\* The files a stage step has put into the index
NewlyStaged ==
  {f \in Files : call.result.tree[f] = "staged" /\ call.arg.tree[f] # "staged"}

----------------------------------------------------------------------------
\* C19: every git command of the workflow is bounded by a timeout: the
\* worker is never blocked for good in a command that does not return.
C19_CommandsBounded ==
  pc # "blocked"

----------------------------------------------------------------------------
\* C20: every write of the presentation layer made for a running workflow
\* is made by the UI thread: the worker thread never writes a widget.
C20_WidgetsWrittenByUiThread ==
  logs_text # "worker"

----------------------------------------------------------------------------
\* The steps after a successful create whose failure C21 names.
LaterSteps == {"find_git", "init", "add", "commit", "remote", "push"}

\* The requests to the hosting API among the commands issued.
ApiRequests(tr) ==
  {i \in 1..Len(tr) : tr[i] \in {"create", "exists"}}

\* C21: there is no partial success and no reconciliation.  Once the create
\* request of a run was answered 201 it stays the only request of the run to
\* the hosting API, whatever happens later; when a later step (git not
\* found, init, stage, commit, remote add, push) fails and the git function
\* returns, it returns success = False with a message that carries the
\* reason of that step, the notification posted is upload_failed, and the
\* run ends with the failure dialog, never with the success dialog.
C21_NoPartialSuccess ==
  /\ [](response = "201" => ApiRequests(trace) = {1})
  /\ []((response = "201" /\ failed.step # "none") => dialog.title # "Success")
  /\ [][(response = "201" /\ pc \in NewOnly \ {"create"} /\ pc' = "idle"
         /\ failed'.step \in LaterSteps) =>
           /\ success' = FALSE
           /\ Carries(message', failed')
           /\ queue' # <<>> /\ queue'[Len(queue')].fn = "upload_failed"]_vars
  /\ []((response = "201" /\ failed.step \in LaterSteps /\ Done /\ ~Crashed) =>
           /\ dialog.title = "Upload Failed"
           /\ ~is_uploading
           /\ Carries(dialog.text, failed))

\* The repository was created and `git remote add` failed.
C21_Witness ==
  /\ response = "201" /\ failed.step = "remote" /\ Done
  /\ dialog.title = "Upload Failed"
  /\ trace[1] = "create" /\ trace[Len(trace)] = "remote"

----------------------------------------------------------------------------
\* The requests and commands of a new-mode run that pushes.
NewModeTrace ==
  <<"create", "version", "init", "config", "config", "add", "status", "commit",
    "branch", "remote", "push">>

\* https://github.com/{username}/{repo_name}
WebUrl(username, repo_name) ==
  <<"https://github.com/", username[1], "/", repo_name[1]>>

\* The run ends in the success dialog, having issued init, add, commit and
\* push in this order.
EndsInSuccess ==
  /\ dialog.title = "Success" /\ ~is_uploading /\ upload_button = "normal"
  /\ trace = NewModeTrace

\* The worker returns from the push with success and the URL, and the final
\* notification shows the URL.
UrlReported ==
  /\ (pc = "n_push" /\ pc' = "idle" /\ failed'.step = "none") =>
        /\ success' = TRUE
        /\ Contains(message', WebUrl(closure.username, closure.repo_name))
  /\ (queue # <<>> /\ Head(queue).fn = "upload_succeeded" /\ queue' = Tail(queue)
      /\ closure.repo_mode = "new") =>
        Contains(dialog'.text, WebUrl(closure.username, closure.repo_name))

\* C22: in new mode, when the create request is answered 201,
\* the directory holds at least one file and no git command (nor the write
\* of .gitignore) fails, the run ends in the success dialog after init, add,
\* commit and push in this order, and the final message holds the web URL
\* of the repository.
C22_SuccessWithAnyFile ==
  /\ []((Done /\ response = "201" /\ failed.step \in {"none", "nothing"}
         /\ \E f \in Files : tree[f] # "absent") => EndsInSuccess)
  /\ [][UrlReported]_vars

----------------------------------------------------------------------------
\* The step issues `git push`.
PushIssued ==
  Len(trace') > Len(trace) /\ trace'[Len(trace')] = "push"

\* C23: the push of a new-mode run is `push -u origin main`, issued after
\* the branch was renamed and origin was added, and its success leaves the
\* upstream of the branch configured; the push of an existing-mode run is
\* the plain `git push`, and it is issued only when the current branch of
\* the project directory has an upstream configured.
C23_PlainPushHasUpstream ==
  [][PushIssued =>
       IF closure.repo_mode = "new"
         THEN /\ pc = "n_push"
              /\ \E i, j \in 1..Len(trace) :
                   i < j /\ trace[i] = "branch" /\ trace[j] = "remote"
              /\ origin # "none"
              /\ failed'.step = "none" => upstream'
         ELSE /\ pc = "e_push"
              /\ upstream]_vars

----------------------------------------------------------------------------
\* The step issues the git command cmd.
Issued(cmd) ==
  Len(trace') > Len(trace) /\ trace'[Len(trace')] = cmd

\* C24: in existing mode the clone is issued exactly when the project
\* directory holds no .git, before any identity, stage, commit or push
\* command of the run, and these are issued only once the directory holds
\* the metadata; with .git in place no clone is issued; a clone that fails
\* or times out makes the function return failure at once, the directory
\* still without .git, and the run ends in the failure dialog.
C24_CloneWhenNoMetadata ==
  /\ [][/\ Issued("clone") =>
             /\ closure.repo_mode = "existing" /\ ~hasGit
             /\ trace = <<"exists", "version">>
        /\ (pc = "e_git_check" /\ pc' # pc) =>
             IF hasGit THEN trace' = trace /\ pc' = "e_cfg_name" /\ hasGit'
             ELSE Issued("clone")
        /\ (closure.repo_mode = "existing"
            /\ \E cmd \in {"config", "add", "status", "commit", "push"} : Issued(cmd)) =>
             hasGit
        /\ (pc = "e_git_check" /\ failed'.step = "clone") =>
             /\ pc' = "idle" /\ success' = FALSE /\ ~hasGit'
             /\ queue'[Len(queue')].fn = "upload_failed"]_vars
  /\ []((Done /\ failed.step = "clone") =>
           /\ dialog.title = "Upload Failed" /\ ~is_uploading
           /\ ~hasGit /\ trace = <<"exists", "version", "clone">>)

\* A directory without .git was cloned into and the run pushed.
C24_Witness ==
  /\ Done /\ dialog.title = "Success" /\ hasGit
  /\ trace = <<"exists", "version", "clone", "config", "config", "add", "status",
               "commit", "push">>

----------------------------------------------------------------------------
\* The places of the candidates, in the fixed order, whose version query
\* exits 0 on the installation env.
Qualifying(env) ==
  {i \in 1..Len(common_git_paths) : env[common_git_paths[i]] = "ok"}

\* The first of them, None if there is none.
FirstQualifying(env) ==
  IF Qualifying(env) = {} THEN "None"
  ELSE common_git_paths[CHOOSE i \in Qualifying(env) : \A j \in Qualifying(env) : i <= j]

\* C25: on every installation find_git_executable returns the first
\* candidate, 'git' first and then the six install locations in order, whose
\* version query exits 0, skipping those that are missing, time out or exit
\* non-zero, and None if and only if there is no such candidate; find_git of
\* check_git.py returns the same path, with the version it printed.
C25_FirstWorkingCandidate ==
  /\ common_git_paths[1] = "git" /\ Len(common_git_paths) = 7
  /\ call.fn \in {"find_git_executable", "find_git"} =>
       /\ call.result.path = FirstQualifying(call.arg.env)
       /\ call.result.path = "None" <=> Qualifying(call.arg.env) = {}
  /\ call.fn = "find_git" =>
       LET git == find_git_executable([i \in 1..Len(common_git_paths) |->
                                         call.arg.env[common_git_paths[i]]])
       IN /\ call.result.path = (IF git = 0 THEN "None" ELSE common_git_paths[git])
          /\ call.result.version = "None" <=> call.result.path = "None"

\* The PATH entry exits non-zero, the first install location times out and
\* the second answers.
C25_Witness ==
  /\ call.fn = "find_git_executable"
  /\ call.arg.env["git"] = "nonzero"
  /\ call.arg.env["C:\\Program Files\\Git\\bin\\git.exe"] = "timeout"
  /\ call.arg.env["C:\\Program Files\\Git\\cmd\\git.exe"] = "ok"
  /\ call.arg.env["C:\\Git\\cmd\\git.exe"] = "missing"
  /\ call.result.path = "C:\\Program Files\\Git\\cmd\\git.exe"

----------------------------------------------------------------------------
\* Where the worker is between the os.chdir of line 537 or 667 and the
\* finally clause of line 614 or 750.
InProjectDir ==
  (NewOnly \cup ExistingOnly \cup {"blocked"}) \ {"create", "exists", "n_find", "e_find"}

\* C26: the git functions restore the working directory.  Outside the
\* stretch between their os.chdir and their finally clause the working
\* directory is the one the application was started in; every step that
\* leaves the stretch (a return with success, a return with a failure, an
\* exception) leaves it with the working directory that was in effect when
\* the function was called; and when git is not found the function returns
\* without having changed the working directory.
C26_WorkingDirRestored ==
  /\ [](IF pc \in InProjectDir THEN cwd = ProjDir /\ original_dir = AppDir
        ELSE cwd = AppDir)
  /\ [][/\ (pc \in InProjectDir /\ pc' \notin InProjectDir) =>
             /\ pc' \in {"idle", "del_e"}
             /\ cwd' = original_dir /\ cwd' # cwd
        /\ (pc \in {"n_find", "e_find"} /\ failed'.step \in {"find_git", "chdir"}) =>
             /\ pc' = "idle" /\ cwd' = cwd /\ success' = FALSE]_vars

\* An exception left the git function after `git commit` had failed, and
\* the working directory is back.
C26_Witness ==
  /\ pc = "del_e" /\ exc.bound /\ failed.step = "commit"
  /\ cwd = AppDir /\ original_dir = AppDir
  /\ steps[Len(steps)] \in {"n_commit", "e_commit"}

----------------------------------------------------------------------------
\* C27: a UI-thread operation never sees the working directory the worker
\* has changed into.  save_credentials writes config.ini of the directory
\* the application was started in, while a workflow is in flight as when
\* none is: whenever it reports the credentials saved, that file holds what
\* was saved, and no config.ini holding credentials is ever written into
\* the project directory.
C27_SaveUnaffectedByWorker ==
  /\ cred.files[ProjDir] = EmptyConfig
  /\ dialog.text = <<"Credentials saved to config.ini">> =>
       cred.files[AppDir] = cred.config

----------------------------------------------------------------------------
\* C28: a run applies the inputs that were validated when it was started.
\* The token the worker puts into the clone URL or the remote URL is the
\* trimmed token of the run's API requests, and the commit mode and the
\* selection it stages by are those the form held when the button was
\* pressed, with a selection that is not empty in 'selected' mode, whatever
\* the user does to the fields meanwhile.
C28_UsesValidatedInputs ==
  [][/\ (Issued("clone") \/ Issued("remote")) =>
          widgets.password = launcher_token
     /\ (pc = "e_add" /\ pc' # pc) =>
          /\ widgets.commit_mode = form.commit_mode
          /\ widgets.selected_files = form.selected_files
          /\ form.commit_mode = "selected" => widgets.selected_files # {}]_vars

----------------------------------------------------------------------------
\* C29: the 'Repository created: ...' line of the log carries the message
\* the create step returned, never the result of the init-and-push step,
\* however the worker and the UI thread interleave.
C29_LogCarriesCreateMessage ==
  widgets.log_created # <<>> =>
    widgets.log_created =
      <<"Repository created: ", "Repository '">> \o strip(form.repo_name)
      \o <<"' created successfully">>

----------------------------------------------------------------------------
\* The authentication test (test_authentication, lines 772-810)

\* Tests the user starts in one behaviour.
MaxTests == 2

\* An answer to GET https://api.github.com/user; exc: the request raised
\* (timeout, network); has_login: the JSON body has the field 'login'.
UserResponses ==
  {[exc |-> FALSE, status |-> "200", has_login |-> TRUE, login |-> <<"octo">>, text |-> <<"body">>],
   [exc |-> FALSE, status |-> "200", has_login |-> TRUE, login |-> <<"Octo">>, text |-> <<"body">>],
   [exc |-> FALSE, status |-> "200", has_login |-> TRUE, login |-> <<"other">>, text |-> <<"body">>],
   [exc |-> FALSE, status |-> "200", has_login |-> FALSE, login |-> <<>>, text |-> <<"body">>],
   [exc |-> FALSE, status |-> "401", has_login |-> FALSE, login |-> <<>>, text |-> <<"body">>],
   [exc |-> FALSE, status |-> "500", has_login |-> FALSE, login |-> <<>>, text |-> <<"body">>],
   [exc |-> TRUE, status |-> "none", has_login |-> FALSE, login |-> <<>>, text |-> <<>>]}

\* What the authentication test leaves alone.
AuthFrame ==
  UNCHANGED <<is_uploading, upload_button, progress_var, lastCall, workerVars, envVars,
              trace, failed, steps, response, form, cred, call, widgets>>

\* lines 772-784 and 810: the button handler.
test_authentication ==
  /\ auth.button = "normal"
  /\ runs < MaxTests
  /\ runs' = runs + 1
  /\ \E username_var \in UsernameVals, password_var \in TokenVals :
       LET username == strip(username_var)
           token == strip(password_var)
       IN IF username = <<>> \/ token = <<>>
            THEN /\ dialog' = [title |-> "Error",
                               text |-> <<"Please enter both username and Personal Access Token">>]
                 /\ UNCHANGED <<logs_text, status_var, progress_bar, auth>>
            ELSE /\ log_message("ui")
                 /\ status_var' = <<"Testing authentication...">>
                 /\ progress_bar' = "running"
                 /\ auth' = [button |-> "disabled", pc |-> "request", username |-> username,
                             response |-> NoResponse, e |-> NoExc, called |-> <<>>]
                 /\ UNCHANGED dialog
  /\ UNCHANGED queue
  /\ AuthFrame

\* lines 787-808: test_thread up to the callback it posts.  With no 'login'
\* in the body, user_data.get('login') is None and None.lower() raises
\* AttributeError, which the except clause of line 807 catches like a failed
\* request.
test_thread ==
  /\ auth.pc = "request"
  /\ \E r \in UserResponses :
       IF r.exc \/ (r.status = "200" /\ ~r.has_login)
         THEN /\ auth' = [auth EXCEPT !.response = r, !.pc = "del_e",
                            !.e = [bound |-> TRUE,
                                   text |-> IF r.exc
                                              THEN <<"timed out">>
                                              ELSE <<"'NoneType' object has no attribute 'lower'">>]]
              /\ Posted(<<Callback("auth_test_failed_exc", <<"Test error: ">>)>>)
         ELSE /\ auth' = [auth EXCEPT !.response = r, !.pc = "done"]
              /\ Posted(<<
                   IF r.status = "200"
                     THEN IF lower(r.login) = lower(auth.username)
                            THEN Callback("auth_test_success",
                                          <<"Authentication successful! Logged in as: ">> \o r.login)
                            ELSE Callback("auth_test_failed",
                                          <<"Username mismatch: Token belongs to '">> \o r.login
                                          \o <<"', not '">> \o auth.username \o <<"'">>)
                     ELSE IF r.status = "401"
                            THEN Callback("auth_test_failed", <<"Invalid Personal Access Token">>)
                            ELSE Callback("auth_test_failed",
                                          <<"Authentication error: ", r.status, " - ">> \o r.text)
                   >>)
  /\ UNCHANGED <<progress_bar, status_var, dialog, logs_text, runs>>
  /\ AuthFrame

\* Leaving the except clause of lines 807-808 unbinds `e`; test_thread returns.
test_thread_del_e ==
  /\ auth.pc = "del_e"
  /\ auth' = [auth EXCEPT !.e = NoExc, !.pc = "done"]
  /\ UNCHANGED <<progress_bar, status_var, dialog, logs_text, queue, runs>>
  /\ AuthFrame

\* lines 812-818
auth_test_success(msg) ==
  /\ progress_bar' = "stopped"
  /\ status_var' = <<"Authentication test passed">>
  /\ log_message("ui")
  /\ auth' = [auth EXCEPT !.button = "normal", !.called = Append(@, "auth_test_success")]
  /\ dialog' = [title |-> "Success", text |-> msg]

\* lines 820-826
auth_test_failed(error_message) ==
  /\ progress_bar' = "stopped"
  /\ status_var' = <<"Authentication test failed">>
  /\ log_message("ui")
  /\ auth' = [auth EXCEPT !.button = "normal", !.called = Append(@, "auth_test_failed")]
  /\ dialog' = [title |-> "Authentication Failed",
                text |-> <<"Authentication test failed:\n\n">> \o error_message]

\* line 799: lambda: self.auth_test_success(...)
cb_auth_test_success ==
  /\ queue # <<>> /\ Head(queue).fn = "auth_test_success"
  /\ auth_test_success(Head(queue).arg)
  /\ queue' = Tail(queue)
  /\ UNCHANGED runs
  /\ AuthFrame

\* lines 801, 803, 805: lambda: self.auth_test_failed(...); the names these
\* lambdas close over are not assigned again.
cb_auth_test_failed ==
  /\ queue # <<>> /\ Head(queue).fn = "auth_test_failed"
  /\ auth_test_failed(Head(queue).arg)
  /\ queue' = Tail(queue)
  /\ UNCHANGED runs
  /\ AuthFrame

\* line 808: lambda: self.auth_test_failed(f"Test error: {str(e)}").  `e` is
\* unbound once test_thread has left the except clause: the lambda then
\* raises NameError in the event loop and auth_test_failed is not called.
cb_auth_test_failed_exc ==
  /\ queue # <<>> /\ Head(queue).fn = "auth_test_failed_exc"
  /\ IF auth.e.bound
       THEN auth_test_failed(Head(queue).arg \o auth.e.text)
       ELSE UNCHANGED <<progress_bar, status_var, logs_text, auth, dialog>>
  /\ queue' = Tail(queue)
  /\ UNCHANGED runs
  /\ AuthFrame

InitAuth ==
  /\ Constructed
  /\ ~hasGit
  /\ tree = [f \in Files |-> IF f = ".gitignore" THEN "absent" ELSE "untracked"]
  /\ runs = 0
  /\ form = NoForm
  /\ cred = NoCred
  /\ call = NoCall
  /\ widgets = NoWidgets
  /\ auth = NoAuth

NextAuth ==
  \/ test_authentication
  \/ test_thread
  \/ test_thread_del_e
  \/ cb_auth_test_success
  \/ cb_auth_test_failed
  \/ cb_auth_test_failed_exc

\* The event loop runs every posted callback and the thread keeps running.
SpecAuth ==
  /\ InitAuth
  /\ [][NextAuth]_vars
  /\ WF_vars(test_thread)
  /\ WF_vars(test_thread_del_e)
  /\ WF_vars(cb_auth_test_success \/ cb_auth_test_failed \/ cb_auth_test_failed_exc)

\* The handler the claim names for the answer the test got.
ExpectedHandler ==
  IF /\ ~auth.response.exc
     /\ auth.response.status = "200"
     /\ auth.response.has_login
     /\ lower(auth.response.login) = lower(auth.username)
    THEN "auth_test_success"
    ELSE "auth_test_failed"

\* C30: every authentication test that test_authentication starts eventually
\* has called exactly one of auth_test_success and auth_test_failed, the one
\* that goes with the answer to GET /user, and has enabled the Test Auth
\* button again.
C30_AuthTestReported ==
  (auth.pc = "request") ~>
    (auth.called = <<ExpectedHandler>> /\ auth.button = "normal")

====
